---- MODULE Spec2Model ----
(***************************************************************************)
(* State-machine model of the tutoring backend: the Student and Lesson     *)
(* tables, the lesson lifecycle handlers of api/lessons.py, and the        *)
(* lookup-or-create of the local Student in api/auth.py together with the  *)
(* other writers of the students table (register and the                   *)
(* identity-provider webhook).                                             *)
(*                                                                         *)
(* Time is in seconds.  A database commit is one atomic step; each await   *)
(* of a handler is a point where another request may run.  Spec runs the   *)
(* handlers one request at a time; SpecAuth interleaves the requests that  *)
(* insert or update Student rows at their await points.                    *)
(***************************************************************************)
EXTENDS Integers, Sequences, FiniteSets, TLC

VARIABLES
    students,   \* table "students": sequence of rows, id = position
    lessons,    \* table "lessons": sequence of rows, id = position
    now,        \* datetime.utcnow(), seconds
    ticks,      \* number of clock advances so far
    last,       \* the last request handled and its HTTP answer
    procs,      \* in-flight requests of SpecAuth: position and locals
    progress,   \* table "progress": sequence of rows, id = position
    manager     \* the ConnectionManager of api/tutoring.py: its two dicts

vars == <<students, lessons, now, ticks, last, procs, progress, manager>>

----------------------------------------------------------------------------
(* Bounds of the model *)

MaxLessons == 2     \* rows of table lessons
MaxTicks == 1       \* clock advances
MaxRequests == 2    \* requests with several awaits that SpecAuth starts
MaxFirstRequests == 3   \* requests that SpecFirstRequests starts

(* Program constants *)

CancelNoticeSeconds == 86400    \* 24 hours notice
DefaultTrialLessons == 2        \* Student.trial_lessons_remaining default
SecondsPerMinute == 60

NULL == -1                      \* SQL NULL of a nullable column

(* Inputs *)

ClerkIds == {"user_a", "user_b"}
EmailOf(cid) == IF cid = "user_a" THEN "a@x" ELSE "b@x"
Emails == {"a@x", "b@x"}

Starts == {86400, 88200}        \* scheduled_start of a request: 24:00, 24:30
Durations == {30, 60}           \* duration_minutes of a request
ClockStep == 90                 \* seconds by which the clock advances
LessonIds == 1..MaxLessons          \* lesson_id of a request; an id beyond the table is an unknown lesson
Ratings == {5}

----------------------------------------------------------------------------
(* Rows *)

NewStudent(cid, email) ==
    [clerk_user_id |-> cid, email |-> email,
     subscription_status |-> "trial", stripe_customer_id |-> "NULL",
     trial_lessons_remaining |-> DefaultTrialLessons,
     total_lessons_completed |-> 0, total_minutes_studied |-> 0,
     last_active_date |-> NULL, is_active |-> TRUE]

NewLesson(sid, start, dur) ==
    [student_id |-> sid, scheduled_start |-> start,
     scheduled_end |-> start + dur * SecondsPerMinute,
     duration_minutes |-> dur, status |-> "scheduled",
     actual_start |-> NULL, actual_end |-> NULL,
     canceled_at |-> NULL, student_rating |-> NULL]

\* The lesson ids of the live connections: two lessons of the table, the
\* id of no lesson, and a string that is not a UUID.
LiveLessonIds == {"L1", "L2", "L0", "bad"}

\* A key of lesson_sessions without an entry.
NoSession == [owner |-> 0, history |-> <<>>]

\* ConnectionManager.__init__: both dicts empty.  A dict is a function on
\* the lesson ids; connection 0 and NoSession are keys not in the dict.
NoManager ==
    [active_connections |-> [l \in LiveLessonIds |-> 0],
     lesson_sessions |-> [l \in LiveLessonIds |-> NoSession]]

NoRequest == [op |-> "none", caller |-> "none", lesson |-> 0,
              start |-> 0, dur |-> 0, code |-> 0]

\* The request of the last step (its handler, caller, lesson id, start and
\* duration, 0 where the request has none) and the HTTP status it answered.
Answer(req, code) ==
    [op |-> req[1], caller |-> req[2], lesson |-> req[3],
     start |-> req[4], dur |-> req[5], code |-> code]

----------------------------------------------------------------------------
(* Queries *)

\* Mutant: only Student.clerk_user_id is unique.
UniqueViolationClerkIdOnly(self, cid, email) ==
    \E i \in DOMAIN students :
        /\ i # self
        /\ students[i].clerk_user_id = cid

\* Student.clerk_user_id and Student.email are unique: the INSERT or UPDATE
\* that would give row `self` (0 for a new row) these values is refused
\* when another row holds one of them.
UniqueViolation(self, cid, email) ==
    \E i \in DOMAIN students :
        /\ i # self
        /\ \/ students[i].clerk_user_id = cid
           \/ students[i].email = email

\* select(Student).where(Student.clerk_user_id == user_id)
StudentsByClerkId(cid) ==
    {i \in DOMAIN students : students[i].clerk_user_id = cid}

\* The half-open overlap test of the conflict query.
Overlaps(l, start, end) ==
    /\ l.scheduled_start < end
    /\ l.scheduled_end > start

\* Mutant: the conflict query looks at scheduled lessons only.
ConflictRowsScheduledOnly(sid, start, end) ==
    {i \in DOMAIN lessons :
        /\ lessons[i].student_id = sid
        /\ lessons[i].status \in {"scheduled"}
        /\ lessons[i].scheduled_start < end
        /\ lessons[i].scheduled_end > start}

\* The rows of the conflict query of schedule_lesson.
ConflictRows(sid, start, end) ==
    {i \in DOMAIN lessons :
        /\ lessons[i].student_id = sid
        /\ lessons[i].status \in {"scheduled", "in_progress"}
        /\ Overlaps(lessons[i], start, end)}

\* Mutant: the lesson query without its status filter.
LessonRowsAnyStatus(lid, sid, statuses) ==
    {i \in DOMAIN lessons :
        /\ i = lid
        /\ lessons[i].student_id = sid}

\* Mutant: the lesson query without its owner filter.
LessonRowsAnyOwner(lid, sid, statuses) ==
    {i \in DOMAIN lessons :
        /\ i = lid
        /\ lessons[i].status \in statuses}

\* select(Lesson).where(id == lesson_id, student_id == caller, status == s)
LessonRows(lid, sid, statuses) ==
    {i \in DOMAIN lessons :
        /\ i = lid
        /\ lessons[i].student_id = sid
        /\ lessons[i].status \in statuses}

AllStatuses == {"scheduled", "in_progress", "completed", "canceled"}

\* Mutant: the elapsed seconds in minutes, rounded to the nearest minute.
MinutesOfRounded(seconds) ==
    (2 * seconds + SecondsPerMinute) \div (2 * SecondsPerMinute)

\* int(x / 60) of a non-negative number of seconds: truncation.
MinutesOf(seconds) == seconds \div SecondsPerMinute

----------------------------------------------------------------------------
(* get_current_user, run without interleaving: the table after the        *)
(* dependency has run, the id of the resolved student, and whether it      *)
(* failed (the INSERT of the new row refused by a unique constraint).      *)

CurrentUserFails(cid) ==
    /\ StudentsByClerkId(cid) = {}
    /\ UniqueViolation(0, cid, EmailOf(cid))

StudentsAfterAuth(cid) ==
    IF StudentsByClerkId(cid) # {} \/ CurrentUserFails(cid)
    THEN students
    ELSE Append(students, NewStudent(cid, EmailOf(cid)))

CurrentUserId(cid) ==
    IF StudentsByClerkId(cid) # {}
    THEN CHOOSE i \in StudentsByClerkId(cid) : TRUE
    ELSE Len(students) + 1

\* A handler whose dependency failed: 500, nothing written.
AuthFailed(req) ==
    /\ last' = Answer(req, 500)
    /\ UNCHANGED <<students, lessons>>

\* A handler that answers an error after the dependency resolved the caller.
Refuse(req, code) ==
    /\ last' = Answer(req, code)
    /\ students' = StudentsAfterAuth(req[2])
    /\ UNCHANGED lessons

----------------------------------------------------------------------------
(* Row updates of the lesson handlers *)

\* Mutant: the entitlement check lets a count of 0 through.
NoTrialLeftBelowZero(st) ==
    /\ st.subscription_status = "trial"
    /\ st.trial_lessons_remaining < 0

\* schedule_lesson: the entitlement check.
NoTrialLeft(st) ==
    /\ st.subscription_status = "trial"
    /\ st.trial_lessons_remaining <= 0

\* schedule_lesson: decrement trial lessons if applicable.
ChargeTrial(st) ==
    IF st.subscription_status = "trial"
    THEN [st EXCEPT !.trial_lessons_remaining = @ - 1]
    ELSE st

\* Mutant: start changes the status only.
StartedStatusOnly(l, t) ==
    [l EXCEPT !.status = "in_progress"]

\* start_lesson: update lesson status.
Started(l, t) ==
    [l EXCEPT !.status = "in_progress", !.actual_start = t]

\* end_lesson: update lesson with summary data.
Ended(l, t) ==
    [l EXCEPT !.status = "completed", !.actual_end = t,
              !.duration_minutes = MinutesOf(t - l.actual_start)]

\* Mutant: the minutes studied grow by the elapsed seconds.
CreditedSeconds(st, l, t) ==
    [st EXCEPT !.total_lessons_completed = @ + 1,
               !.total_minutes_studied = @ + (l.actual_end - l.actual_start),
               !.last_active_date = t]

\* end_lesson: update student statistics, from the lesson as just updated.
Credited(st, l, t) ==
    [st EXCEPT !.total_lessons_completed = @ + 1,
               !.total_minutes_studied = @ + l.duration_minutes,
               !.last_active_date = t]

\* cancel_lesson: the lesson row.
Canceled(l, t) ==
    [l EXCEPT !.status = "canceled", !.canceled_at = t]

\* Mutant: the refund needs more than 24 hours of notice.
RefundedStrict(st, l, t) ==
    IF /\ st.subscription_status = "trial"
       /\ l.scheduled_start - t > CancelNoticeSeconds
    THEN [st EXCEPT !.trial_lessons_remaining = @ + 1]
    ELSE st

\* cancel_lesson: refund trial lesson if applicable.
Refunded(st, l, t) ==
    IF /\ st.subscription_status = "trial"
       /\ l.scheduled_start - t >= CancelNoticeSeconds
    THEN [st EXCEPT !.trial_lessons_remaining = @ + 1]
    ELSE st

\* rate_lesson: the lesson row.
Rated(l, rating) ==
    [l EXCEPT !.student_rating = rating]

----------------------------------------------------------------------------
(* The handlers of api/lessons.py, one request at a time *)

\* POST /schedule.  plan_ok: the lesson-plan generation returns (it raises
\* when the provider call fails).
schedule_lesson(cid, start, dur, plan_ok) ==
    LET me == CurrentUserId(cid)
        db == StudentsAfterAuth(cid)
        end == start + dur * SecondsPerMinute
        conflict == ConflictRows(me, start, end)
    IN
    /\ UNCHANGED <<now, ticks, procs, progress, manager>>
    /\ IF CurrentUserFails(cid)
       THEN AuthFailed(<<"schedule", cid, 0, start, dur>>)
       ELSE IF Cardinality(conflict) > 1
       THEN \* scalar_one_or_none raises MultipleResultsFound: except Exception
            Refuse(<<"schedule", cid, 0, start, dur>>, 500)
       ELSE IF conflict # {}
       THEN Refuse(<<"schedule", cid, 0, start, dur>>, 400)
       ELSE IF NoTrialLeft(db[me])
       THEN Refuse(<<"schedule", cid, 0, start, dur>>, 403)
       ELSE IF ~plan_ok
       THEN Refuse(<<"schedule", cid, 0, start, dur>>, 500)
       ELSE /\ Len(lessons) < MaxLessons
            /\ lessons' = Append(lessons, NewLesson(me, start, dur))
            /\ students' = [db EXCEPT ![me] = ChargeTrial(@)]
            /\ last' = Answer(<<"schedule", cid, Len(lessons) + 1, start, dur>>, 200)

\* GET /upcoming
get_upcoming_lessons(cid) ==
    /\ UNCHANGED <<now, ticks, procs, progress, manager>>
    /\ IF CurrentUserFails(cid)
       THEN AuthFailed(<<"upcoming", cid, 0, 0, 0>>)
       ELSE Refuse(<<"upcoming", cid, 0, 0, 0>>, 200)

\* GET /{lesson_id}
get_lesson(cid, lid) ==
    LET me == CurrentUserId(cid) IN
    /\ UNCHANGED <<now, ticks, procs, progress, manager>>
    /\ IF CurrentUserFails(cid)
       THEN AuthFailed(<<"get", cid, lid, 0, 0>>)
       ELSE IF LessonRows(lid, me, AllStatuses) = {}
       THEN Refuse(<<"get", cid, lid, 0, 0>>, 404)
       ELSE Refuse(<<"get", cid, lid, 0, 0>>, 200)

\* POST /{lesson_id}/start
start_lesson(cid, lid) ==
    LET me == CurrentUserId(cid)
        db == StudentsAfterAuth(cid)
    IN
    /\ UNCHANGED <<now, ticks, procs, progress, manager>>
    /\ IF CurrentUserFails(cid)
       THEN AuthFailed(<<"start", cid, lid, 0, 0>>)
       ELSE IF LessonRows(lid, me, {"scheduled"}) = {}
       THEN Refuse(<<"start", cid, lid, 0, 0>>, 404)
       ELSE /\ lessons' = [lessons EXCEPT ![lid] = Started(@, now)]
            /\ students' = db
            /\ last' = Answer(<<"start", cid, lid, 0, 0>>, 200)

\* POST /{lesson_id}/end
end_lesson(cid, lid) ==
    LET me == CurrentUserId(cid)
        db == StudentsAfterAuth(cid)
    IN
    /\ UNCHANGED <<now, ticks, procs, progress, manager>>
    /\ IF CurrentUserFails(cid)
       THEN AuthFailed(<<"end", cid, lid, 0, 0>>)
       ELSE IF LessonRows(lid, me, {"in_progress"}) = {}
       THEN Refuse(<<"end", cid, lid, 0, 0>>, 404)
       ELSE LET done == Ended(lessons[lid], now) IN
            /\ lessons' = [lessons EXCEPT ![lid] = done]
            /\ students' = [db EXCEPT ![me] = Credited(@, done, now)]
            /\ last' = Answer(<<"end", cid, lid, 0, 0>>, 200)

\* POST /{lesson_id}/cancel
cancel_lesson(cid, lid) ==
    LET me == CurrentUserId(cid)
        db == StudentsAfterAuth(cid)
    IN
    /\ UNCHANGED <<now, ticks, procs, progress, manager>>
    /\ IF CurrentUserFails(cid)
       THEN AuthFailed(<<"cancel", cid, lid, 0, 0>>)
       ELSE IF LessonRows(lid, me, {"scheduled"}) = {}
       THEN Refuse(<<"cancel", cid, lid, 0, 0>>, 404)
       ELSE /\ lessons' = [lessons EXCEPT ![lid] = Canceled(@, now)]
            /\ students' = [db EXCEPT ![me] = Refunded(@, lessons[lid], now)]
            /\ last' = Answer(<<"cancel", cid, lid, 0, 0>>, 200)

\* POST /{lesson_id}/rate
rate_lesson(cid, lid, rating) ==
    LET me == CurrentUserId(cid)
        db == StudentsAfterAuth(cid)
    IN
    /\ UNCHANGED <<now, ticks, procs, progress, manager>>
    /\ IF CurrentUserFails(cid)
       THEN AuthFailed(<<"rate", cid, lid, 0, 0>>)
       ELSE IF LessonRows(lid, me, {"completed"}) = {}
       THEN Refuse(<<"rate", cid, lid, 0, 0>>, 404)
       ELSE /\ lessons' = [lessons EXCEPT ![lid] = Rated(@, rating)]
            /\ students' = db
            /\ last' = Answer(<<"rate", cid, lid, 0, 0>>, 200)

\* The clock advances between requests.
Tick ==
    /\ ticks < MaxTicks
    /\ now' = now + ClockStep
    /\ ticks' = ticks + 1
    /\ last' = Answer(<<"tick", "none", 0, 0, 0>>, 0)
    /\ UNCHANGED <<students, lessons, procs, progress, manager>>

----------------------------------------------------------------------------
\* The students table when the lesson requests begin: user_a has made a first
\* authenticated request (a trial student with the default allotment), user_b
\* has in addition completed a checkout (active, customer id recorded).
Subscribed(st, customer) ==
    [st EXCEPT !.subscription_status = "active", !.stripe_customer_id = customer]

Init ==
    /\ students = <<NewStudent("user_a", EmailOf("user_a")),
                    Subscribed(NewStudent("user_b", EmailOf("user_b")), "cus_1")>>
    /\ lessons = <<>>
    /\ now = 0
    /\ ticks = 0
    /\ last = NoRequest
    /\ progress = <<>>
    /\ manager = NoManager
    /\ procs = <<>>

Next ==
    \/ \E cid \in ClerkIds, start \in Starts, dur \in Durations, ok \in BOOLEAN :
          schedule_lesson(cid, start, dur, ok)
    \/ \E cid \in ClerkIds : get_upcoming_lessons(cid)
    \/ \E cid \in ClerkIds, lid \in LessonIds : get_lesson(cid, lid)
    \/ \E cid \in ClerkIds, lid \in LessonIds : start_lesson(cid, lid)
    \/ \E cid \in ClerkIds, lid \in LessonIds : end_lesson(cid, lid)
    \/ \E cid \in ClerkIds, lid \in LessonIds : cancel_lesson(cid, lid)
    \/ \E cid \in ClerkIds, lid \in LessonIds, r \in Ratings : rate_lesson(cid, lid, r)
    \/ Tick

Spec == Init /\ [][Next]_vars

----------------------------------------------------------------------------
(* The writers of the students table, interleaved at their await points.   *)
(* A request with several awaits is an entry of procs: its handler, the    *)
(* identity it carries, its position, the row its select found (0: none),  *)
(* and, once done, its answer and the student it resolved to.              *)

NewProc(kind, cid, email, pc) ==
    [kind |-> kind, cid |-> cid, email |-> email, pc |-> pc,
     row |-> 0, code |-> 0, student |-> 0]

Done(proc, code, student) ==
    [proc EXCEPT !.pc = "done", !.code = code, !.student = student]

\* GET /me arrives with a token of identity (cid, email): get_current_user
\* awaits the verification of the token.
me_begin(cid, email) ==
    /\ procs' = Append(procs, NewProc("me", cid, email, "verify"))
    /\ UNCHANGED <<students, lessons, now, ticks, last, progress, manager>>

\* get_current_user: verify_clerk_token has returned the identity.
me_verified(p) ==
    /\ procs[p].kind = "me"
    /\ procs[p].pc = "verify"
    /\ procs' = [procs EXCEPT ![p].pc = "select"]
    /\ UNCHANGED <<students, lessons, now, ticks, last, progress, manager>>

\* get_current_user: the select by clerk_user_id has returned; with a row
\* the dependency is done and get_me answers the profile.
me_selected(p) ==
    LET rows == StudentsByClerkId(procs[p].cid) IN
    /\ procs[p].kind = "me"
    /\ procs[p].pc = "select"
    /\ procs' = [procs EXCEPT ![p] =
                    IF rows # {}
                    THEN Done(@, 200, CHOOSE i \in rows : TRUE)
                    ELSE [@ EXCEPT !.pc = "insert"]]
    /\ UNCHANGED <<students, lessons, now, ticks, last, progress, manager>>

\* get_current_user: db.add(student); await db.commit() (and the refresh of
\* the new row).  A unique constraint refuses the INSERT: the IntegrityError
\* is not caught and the request answers 500.
me_inserted(p) ==
    /\ procs[p].kind = "me"
    /\ procs[p].pc = "insert"
    /\ IF UniqueViolation(0, procs[p].cid, procs[p].email)
       THEN /\ procs' = [procs EXCEPT ![p] = Done(@, 500, 0)]
            /\ UNCHANGED students
       ELSE /\ students' = Append(students, NewStudent(procs[p].cid, procs[p].email))
            /\ procs' = [procs EXCEPT ![p] = Done(@, 200, Len(students) + 1)]
    /\ UNCHANGED <<lessons, now, ticks, last, progress, manager>>

\* POST /register: one INSERT and commit; any error answers 400.
register(cid, email) ==
    /\ IF UniqueViolation(0, cid, email)
       THEN /\ last' = Answer(<<"register", cid, 0, 0, 0>>, 400)
            /\ UNCHANGED students
       ELSE /\ students' = Append(students, NewStudent(cid, email))
            /\ last' = Answer(<<"register", cid, 0, 0, 0>>, 200)
    /\ UNCHANGED <<lessons, now, ticks, procs, progress, manager>>

\* POST /clerk, event user.created: one INSERT and commit, without a lookup;
\* any error answers 400.
clerk_user_created(cid, email) ==
    /\ IF UniqueViolation(0, cid, email)
       THEN /\ last' = Answer(<<"user.created", cid, 0, 0, 0>>, 400)
            /\ UNCHANGED students
       ELSE /\ students' = Append(students, NewStudent(cid, email))
            /\ last' = Answer(<<"user.created", cid, 0, 0, 0>>, 200)
    /\ UNCHANGED <<lessons, now, ticks, procs, progress, manager>>

\* POST /clerk, event user.updated, arrives: the handler awaits its select.
clerk_user_updated_begin(cid, email) ==
    /\ procs' = Append(procs, NewProc("user.updated", cid, email, "select"))
    /\ UNCHANGED <<students, lessons, now, ticks, last, progress, manager>>

\* user.updated: the select has returned; without a row the webhook answers
\* success, with one it sets the email of the row and awaits the commit.
clerk_user_updated_selected(p) ==
    LET rows == StudentsByClerkId(procs[p].cid) IN
    /\ procs[p].kind = "user.updated"
    /\ procs[p].pc = "select"
    /\ procs' = [procs EXCEPT ![p] =
                    IF rows = {}
                    THEN Done(@, 200, 0)
                    ELSE [@ EXCEPT !.pc = "commit",
                                   !.row = CHOOSE i \in rows : TRUE]]
    /\ UNCHANGED <<students, lessons, now, ticks, last, progress, manager>>

\* user.updated: the commit of the UPDATE; a unique constraint refuses it
\* and the webhook answers 400.
clerk_user_updated_committed(p) ==
    LET row == procs[p].row IN
    /\ procs[p].kind = "user.updated"
    /\ procs[p].pc = "commit"
    /\ IF UniqueViolation(row, students[row].clerk_user_id, procs[p].email)
       THEN /\ procs' = [procs EXCEPT ![p] = Done(@, 400, row)]
            /\ UNCHANGED students
       ELSE /\ students' = [students EXCEPT ![row].email = procs[p].email]
            /\ procs' = [procs EXCEPT ![p] = Done(@, 200, row)]
    /\ UNCHANGED <<lessons, now, ticks, last, progress, manager>>

InitAuth ==
    /\ students = <<>>
    /\ lessons = <<>>
    /\ now = 0
    /\ ticks = 0
    /\ last = NoRequest
    /\ progress = <<>>
    /\ manager = NoManager
    /\ procs = <<>>

NextAuth ==
    \/ /\ Len(procs) < MaxRequests
       /\ \E cid \in ClerkIds, email \in Emails : me_begin(cid, email)
    \/ \E p \in DOMAIN procs : me_verified(p)
    \/ \E p \in DOMAIN procs : me_selected(p)
    \/ \E p \in DOMAIN procs : me_inserted(p)
    \/ \E cid \in ClerkIds, email \in Emails : register(cid, email)
    \/ \E cid \in ClerkIds, email \in Emails : clerk_user_created(cid, email)
    \/ /\ Len(procs) < MaxRequests
       /\ \E cid \in ClerkIds, email \in Emails : clerk_user_updated_begin(cid, email)
    \/ \E p \in DOMAIN procs : clerk_user_updated_selected(p)
    \/ \E p \in DOMAIN procs : clerk_user_updated_committed(p)

SpecAuth == InitAuth /\ [][NextAuth]_vars

\* First authenticated requests only, each identity with the email the
\* identity provider holds for it.
NextFirstRequests ==
    \/ /\ Len(procs) < MaxFirstRequests
       /\ \E cid \in ClerkIds : me_begin(cid, EmailOf(cid))
    \/ \E p \in DOMAIN procs : me_verified(p)
    \/ \E p \in DOMAIN procs : me_selected(p)
    \/ \E p \in DOMAIN procs : me_inserted(p)

SpecFirstRequests == InitAuth /\ [][NextFirstRequests]_vars

----------------------------------------------------------------------------
(* Properties of the lesson handlers, checked under Spec.  In an action    *)
(* property the unprimed tables are the tables before the request of the   *)
(* step, last' is that request with its answer.                            *)

\* The row of the caller of the request of this step.
Caller == CurrentUserId(last'.caller)

\* The interval [start, end) of the schedule request of this step.
ReqEnd == last'.start + last'.dur * SecondsPerMinute

\* The caller's lessons that block the interval of the schedule request of
\* this step: scheduled or in progress, and sharing an instant with it.
Blocking ==
    {i \in DOMAIN lessons :
        /\ lessons[i].student_id = Caller
        /\ lessons[i].status \in {"scheduled", "in_progress"}
        /\ \E t \in {last'.start, lessons[i].scheduled_start} :
              /\ last'.start <= t /\ t < ReqEnd
              /\ lessons[i].scheduled_start <= t /\ t < lessons[i].scheduled_end}

TrialOf(st) == st.trial_lessons_remaining

\* C1: no student has two lessons with status scheduled or in_progress
\* whose half-open intervals [scheduled_start, scheduled_end) overlap.
C1_NoOverlap ==
    \A i, j \in DOMAIN lessons :
        ( /\ i # j
          /\ lessons[i].student_id = lessons[j].student_id
          /\ lessons[i].status \in {"scheduled", "in_progress"}
          /\ lessons[j].status \in {"scheduled", "in_progress"} )
        => ~ ( /\ lessons[i].scheduled_start < lessons[j].scheduled_end
               /\ lessons[i].scheduled_end > lessons[j].scheduled_start )

\* Two lessons of one student, back to back, one of them in progress.
C1_Witness ==
    \E i, j \in DOMAIN lessons :
        /\ lessons[i].student_id = lessons[j].student_id
        /\ lessons[i].status = "in_progress"
        /\ lessons[j].status = "scheduled"
        /\ lessons[i].scheduled_end = lessons[j].scheduled_start

\* C2 (as claimed): a schedule request whose interval intersects one or
\* more blocking lessons of the caller answers 400 and creates no lesson;
\* one that intersects none is accepted when the caller is entitled (and
\* the lesson plan is generated).
C2_ConflictAnswers400 ==
    [][ last'.op = "schedule" =>
          /\ Blocking # {} =>
                /\ last'.code = 400
                /\ lessons' = lessons
          /\ ( /\ Blocking = {}
               /\ ~ ( /\ students[Caller].subscription_status = "trial"
                      /\ TrialOf(students[Caller]) <= 0 )
               /\ schedule_lesson(last'.caller, last'.start, last'.dur, TRUE) )
             => /\ last'.code = 200
                /\ Len(lessons') = Len(lessons) + 1
      ]_vars

\* C3 (as claimed): a schedule request of a trial student with no trial
\* lesson left answers 403, creates no lesson and leaves the count; a
\* successful schedule request of a trial student takes exactly 1 off the
\* count; for any other student schedule leaves the count.
C3_Original ==
    [][ last'.op = "schedule" =>
          LET st == students[Caller] IN
          /\ (st.subscription_status = "trial" /\ TrialOf(st) <= 0) =>
                /\ last'.code = 403
                /\ lessons' = lessons
                /\ TrialOf(students'[Caller]) = TrialOf(st)
          /\ (st.subscription_status = "trial" /\ last'.code = 200) =>
                TrialOf(students'[Caller]) = TrialOf(st) - 1
          /\ st.subscription_status # "trial" =>
                TrialOf(students'[Caller]) = TrialOf(st)
      ]_vars

\* C3 (amended): a schedule request of a trial student with no trial lesson
\* left is rejected, creates no lesson and leaves the count; its answer is
\* 403 when no lesson of the caller blocks the interval, and the answer of
\* the conflict check (400, or 500) when one does.  A successful schedule
\* request of a trial student takes exactly 1 off the count; for any other
\* student schedule leaves the count.
C3_TrialAccounting ==
    [][ last'.op = "schedule" =>
          LET st == students[Caller] IN
          /\ (st.subscription_status = "trial" /\ TrialOf(st) <= 0) =>
                /\ last'.code = IF Blocking = {} THEN 403
                                ELSE IF Cardinality(Blocking) = 1 THEN 400
                                ELSE 500
                /\ lessons' = lessons
                /\ TrialOf(students'[Caller]) = TrialOf(st)
          /\ (st.subscription_status = "trial" /\ last'.code = 200) =>
                TrialOf(students'[Caller]) = TrialOf(st) - 1
          /\ st.subscription_status # "trial" =>
                TrialOf(students'[Caller]) = TrialOf(st)
      ]_vars

\* A trial student with no trial lesson left has just been answered 403.
C3_Witness ==
    /\ last.op = "schedule"
    /\ last.code = 403
    /\ \E i \in DOMAIN students :
          /\ students[i].clerk_user_id = last.caller
          /\ students[i].subscription_status = "trial"
          /\ students[i].trial_lessons_remaining = 0

\* C4: the cancel of a scheduled lesson of the caller succeeds, the lesson
\* becomes canceled with canceled_at set, and trial_lessons_remaining grows
\* by exactly 1 for a trial student with at least 86400 seconds left before
\* scheduled_start, and is unchanged for a trial student with less and for
\* a student who is not on trial.
C4_CancelRefund ==
    [][ ( /\ last'.op = "cancel"
          /\ last'.lesson \in DOMAIN lessons
          /\ lessons[last'.lesson].student_id = Caller
          /\ lessons[last'.lesson].status = "scheduled" )
        => LET st == students[Caller]
               l == lessons[last'.lesson]
               notice == l.scheduled_start - now
           IN
           /\ last'.code = 200
           /\ lessons'[last'.lesson].status = "canceled"
           /\ lessons'[last'.lesson].canceled_at = now
           /\ lessons'[last'.lesson].canceled_at # NULL
           /\ TrialOf(students'[Caller]) =
                 IF st.subscription_status = "trial" /\ notice >= 86400
                 THEN TrialOf(st) + 1
                 ELSE TrialOf(st)
      ]_vars

\* A trial student has canceled one lesson with exactly 24 hours of notice
\* and another with less.
C4_Witness ==
    \E i, j \in DOMAIN lessons :
        /\ lessons[i].status = "canceled"
        /\ lessons[j].status = "canceled"
        /\ lessons[i].student_id = lessons[j].student_id
        /\ students[lessons[i].student_id].subscription_status = "trial"
        /\ lessons[i].scheduled_start - lessons[i].canceled_at = 86400
        /\ lessons[j].scheduled_start - lessons[j].canceled_at < 86400
        /\ students[lessons[i].student_id].trial_lessons_remaining = 1

\* C5: the status of a lesson changes only from scheduled to in_progress
\* (by start), from in_progress to completed (by end) and from scheduled to
\* canceled (by cancel): completed and canceled are terminal, and rate, get
\* and list requests change no status.
C5_Transitions ==
    [][ \A i \in DOMAIN lessons :
          lessons'[i].status # lessons[i].status =>
             \/ /\ lessons[i].status = "scheduled"
                /\ lessons'[i].status = "in_progress"
                /\ last'.op = "start"
             \/ /\ lessons[i].status = "in_progress"
                /\ lessons'[i].status = "completed"
                /\ last'.op = "end"
             \/ /\ lessons[i].status = "scheduled"
                /\ lessons'[i].status = "canceled"
                /\ last'.op = "cancel"
      ]_vars

\* One lesson has been completed and rated, another one canceled.
C5_Witness ==
    \E i, j \in DOMAIN lessons :
        /\ lessons[i].status = "completed"
        /\ lessons[i].student_rating # NULL
        /\ lessons[j].status = "canceled"

\* The status a handler requires of the lesson it is applied to.
RequiredStatus(op) ==
    CASE op = "start" -> "scheduled"
      [] op = "end" -> "in_progress"
      [] op = "cancel" -> "scheduled"
      [] op = "rate" -> "completed"

\* C6: start, end, cancel or rate applied by its owner to a lesson that is
\* not in the status the operation requires answers 404 and changes neither
\* table.
C6_WrongState404 ==
    [][ ( /\ last'.op \in {"start", "end", "cancel", "rate"}
          /\ last'.lesson \in DOMAIN lessons
          /\ lessons[last'.lesson].student_id = Caller
          /\ lessons[last'.lesson].status # RequiredStatus(last'.op) )
        => /\ last'.code = 404
           /\ lessons' = lessons
           /\ students' = students
      ]_vars

\* The owner of a completed lesson has just asked to start it: 404.
C6_Witness ==
    /\ last.op = "start"
    /\ last.code = 404
    /\ last.lesson \in DOMAIN lessons
    /\ lessons[last.lesson].status = "completed"
    /\ students[lessons[last.lesson].student_id].clerk_user_id = last.caller

\* C7: the end of an in_progress lesson of the caller succeeds and adds
\* exactly 1 to the caller's total_lessons_completed and exactly the
\* lesson's recomputed duration_minutes to total_minutes_studied; no other
\* step changes either counter of any student.
C7_EndCounters ==
    [][ /\ ( /\ last'.op = "end"
             /\ last'.lesson \in DOMAIN lessons
             /\ lessons[last'.lesson].student_id = Caller
             /\ lessons[last'.lesson].status = "in_progress" )
           => /\ last'.code = 200
              /\ students'[Caller].total_lessons_completed =
                    students[Caller].total_lessons_completed + 1
              /\ students'[Caller].total_minutes_studied =
                    students[Caller].total_minutes_studied
                       + lessons'[last'.lesson].duration_minutes
        /\ \A i \in DOMAIN students :
              (last'.op # "end" \/ last'.code # 200 \/ i # Caller) =>
                 /\ students'[i].total_lessons_completed =
                       students[i].total_lessons_completed
                 /\ students'[i].total_minutes_studied =
                       students[i].total_minutes_studied
      ]_vars

\* A lesson that ran for 90 seconds has just been ended: one lesson and one
\* minute are counted.
C7_Witness ==
    /\ last.op = "end"
    /\ last.code = 200
    /\ lessons[last.lesson].actual_end - lessons[last.lesson].actual_start = 90
    /\ students[lessons[last.lesson].student_id].total_lessons_completed = 1
    /\ students[lessons[last.lesson].student_id].total_minutes_studied = 1

\* C8: get, start, end, cancel or rate applied to a lesson of another
\* student answers 404 and changes neither table, whatever the status of
\* the lesson.
C8_OwnLessonsOnly ==
    [][ ( /\ last'.op \in {"get", "start", "end", "cancel", "rate"}
          /\ last'.lesson \in DOMAIN lessons
          /\ lessons[last'.lesson].student_id # Caller )
        => /\ last'.code = 404
           /\ lessons' = lessons
           /\ students' = students
      ]_vars

\* A student has just asked to end the in_progress lesson of another one.
C8_Witness ==
    /\ last.op = "end"
    /\ last.code = 404
    /\ last.lesson \in DOMAIN lessons
    /\ lessons[last.lesson].status = "in_progress"
    /\ students[lessons[last.lesson].student_id].clerk_user_id # last.caller

----------------------------------------------------------------------------
(* Properties of the students table *)

\* C9: no two Student rows share a clerk_user_id and no two share an email,
\* under any interleaving of first authenticated requests, register calls
\* and user.created / user.updated webhooks.
C9_OneStudentPerIdentity ==
    \A i, j \in DOMAIN students :
        i # j => /\ students[i].clerk_user_id # students[j].clerk_user_id
                 /\ students[i].email # students[j].email

\* Two students exist, and a first authenticated request that found no row
\* had its INSERT refused.
C9_Witness ==
    /\ Len(students) = 2
    /\ \E p \in DOMAIN procs :
          /\ procs[p].kind = "me"
          /\ procs[p].pc = "done"
          /\ procs[p].code = 500

\* C10 (as claimed): two first authenticated requests of the same new
\* identity, interleaved at their awaits, resolve to the same single Student
\* and neither fails.
C10_LookupOrCreateIdempotent ==
    \A p, q \in DOMAIN procs :
        ( /\ p # q
          /\ procs[p].kind = "me" /\ procs[q].kind = "me"
          /\ procs[p].pc = "done" /\ procs[q].pc = "done"
          /\ procs[p].cid = procs[q].cid )
        => /\ procs[p].code = 200
           /\ procs[q].code = 200
           /\ procs[p].student = procs[q].student
           /\ Cardinality(StudentsByClerkId(procs[p].cid)) = 1

----------------------------------------------------------------------------
(* PUT /profile (api/auth.py).  The rows of this part carry the profile    *)
(* columns of Student and its timestamps next to the columns above.  A     *)
(* nullable column without a value holds "NULL"; "v1" stands for a value   *)
(* of the column's type that differs from every default.                   *)

allowed_fields ==
    {"full_name", "phone_number", "whatsapp_number", "age", "learning_goals",
     "preferred_lesson_times", "timezone", "learning_style", "interests"}

\* The columns a row has beyond those of NewStudent, as an INSERT at time t
\* that names only clerk_user_id, email and full_name leaves them.
ProfileColumns(t) ==
    [full_name |-> "Student", phone_number |-> "NULL",
     whatsapp_number |-> "NULL", age |-> "NULL", learning_goals |-> "NULL",
     preferred_lesson_times |-> "NULL", timezone |-> "America/Sao_Paulo",
     learning_style |-> "NULL", interests |-> "NULL",
     english_level |-> "NULL", subscription_plan |-> "NULL",
     created_at |-> t, updated_at |-> t]

StudentRow(cid, email, t) == NewStudent(cid, email) @@ ProfileColumns(t)

\* The keys and the values of the payloads: an allow-listed field alone, a
\* field outside the list alone and next to an allow-listed one, the whole
\* allow-list, and the allow-list with the fields outside it.
ProtectedFields ==
    {"subscription_status", "trial_lessons_remaining",
     "total_lessons_completed", "is_active"}

\* The value a payload gives for a field: a value of the column's type
\* that no row holds, or JSON null for a profile field.
PayloadValue(k, null) ==
    IF null /\ k \in allowed_fields THEN "NULL"
    ELSE CASE k \in {"trial_lessons_remaining", "total_lessons_completed"} -> 99
           [] k = "is_active" -> FALSE
           [] OTHER -> "v1"

PayloadKeySets ==
    {{}, {"full_name"}, {"age"}, {"subscription_status"},
     {"full_name", "subscription_status"}, {"age", "is_active"},
     allowed_fields, allowed_fields \cup ProtectedFields}

Payloads ==
    {[k \in keys |-> PayloadValue(k, null)] :
        keys \in PayloadKeySets, null \in BOOLEAN}

\* Mutant: every submitted field that is a column is set.
SubmittedAnyField(st, payload) ==
    [c \in DOMAIN st |-> IF c \in DOMAIN payload THEN payload[c] ELSE st[c]]

\* for field in allowed_fields: if field in profile_data: setattr(...)
Submitted(st, payload) ==
    [c \in DOMAIN st |->
        IF c \in allowed_fields /\ c \in DOMAIN payload
        THEN payload[c]
        ELSE st[c]]

\* Student.full_name is the one allow-listed column that is NOT NULL: the
\* UPDATE that would null it is refused at the commit.
CommitRefused(st) == st.full_name = "NULL"

\* The UPDATE of a row at the commit at time t: none for a row whose values
\* are those it was loaded with; otherwise updated_at takes its onupdate
\* value.
Updated(old, new, t) ==
    IF new = old THEN old ELSE [new EXCEPT !.updated_at = t]

\* get_current_user for the rows of this part.
ProfilesAfterAuth(cid) ==
    IF StudentsByClerkId(cid) # {} \/ CurrentUserFails(cid)
    THEN students
    ELSE Append(students, StudentRow(cid, EmailOf(cid), now))

ProfileAnswer(cid, payload, code) ==
    [op |-> "profile", caller |-> cid, payload |-> payload, code |-> code]

\* PUT /profile
update_profile(cid, payload) ==
    LET me == CurrentUserId(cid)
        db == ProfilesAfterAuth(cid)
        new == Submitted(db[me], payload)
    IN
    /\ UNCHANGED <<lessons, now, ticks, procs, progress, manager>>
    /\ IF CurrentUserFails(cid)
       THEN /\ last' = ProfileAnswer(cid, payload, 500)
            /\ UNCHANGED students
       ELSE IF CommitRefused(new)
       THEN \* except Exception: 400; the session is rolled back
            /\ last' = ProfileAnswer(cid, payload, 400)
            /\ students' = db
       ELSE /\ last' = ProfileAnswer(cid, payload, 200)
            /\ students' = [db EXCEPT ![me] = Updated(@, new, now)]

\* user_a has made a first authenticated request; user_b has not.
InitProfile ==
    /\ students = <<StudentRow("user_a", EmailOf("user_a"), 0)>>
    /\ lessons = <<>>
    /\ now = 0
    /\ ticks = 0
    /\ last = NoRequest
    /\ progress = <<>>
    /\ manager = NoManager
    /\ procs = <<>>

NextProfile ==
    \/ \E cid \in ClerkIds, payload \in Payloads : update_profile(cid, payload)
    \/ Tick

SpecProfile == InitProfile /\ [][NextProfile]_vars

----------------------------------------------------------------------------
(* Properties of update_profile, checked under SpecProfile *)

\* The row of the caller of the profile request of this step, as
\* get_current_user hands it to the handler.
ProfileBefore == ProfilesAfterAuth(last'.caller)[Caller]

\* The allow-listed fields the payload of this step names.
Named == {"full_name", "phone_number", "whatsapp_number", "age",
          "learning_goals", "preferred_lesson_times", "timezone",
          "learning_style", "interests"} \cap DOMAIN last'.payload

\* C11 (as claimed): update_profile gives every submitted allow-listed
\* field its submitted value and leaves every other field of the student
\* as it was, even when the payload names it.
C11_Original ==
    [][ last'.op = "profile" =>
          \A c \in DOMAIN ProfileBefore :
             students'[Caller][c] = IF c \in Named THEN last'.payload[c]
                                    ELSE ProfileBefore[c]
      ]_vars

\* C11 (amended): an update_profile whose commit succeeds gives every
\* submitted allow-listed field its submitted value, sets updated_at to the
\* time of the commit when one of these values differs from the stored one,
\* and leaves every other field of the student as it was, even when the
\* payload names it; an update_profile that submits null for full_name
\* answers 400 and changes no field.  No other student changes.
C11_ProfileUpdate ==
    [][ last'.op = "profile" =>
          LET refused == /\ "full_name" \in Named
                         /\ last'.payload["full_name"] = "NULL"
              differs == \E c \in Named : last'.payload[c] # ProfileBefore[c]
          IN
          /\ last'.code = IF refused THEN 400 ELSE 200
          /\ refused => students'[Caller] = ProfileBefore
          /\ ~refused =>
                \A c \in DOMAIN ProfileBefore :
                   students'[Caller][c] =
                      IF c \in Named THEN last'.payload[c]
                      ELSE IF c = "updated_at" /\ differs THEN now
                      ELSE ProfileBefore[c]
          /\ \A i \in DOMAIN students : i # Caller => students'[i] = students[i]
      ]_vars

\* A payload that names full_name and subscription_status has just been
\* accepted: the name is the submitted one, the student is still on trial.
C11_Witness ==
    /\ last.op = "profile"
    /\ last.code = 200
    /\ DOMAIN last.payload = {"full_name", "subscription_status"}
    /\ \E i \in DOMAIN students :
          /\ students[i].clerk_user_id = last.caller
          /\ students[i].full_name = "v1"
          /\ students[i].subscription_status = "trial"
          /\ students[i].updated_at > students[i].created_at

----------------------------------------------------------------------------
(* The webhooks of api/webhooks.py that update Student rows: the           *)
(* identity-provider event user.deleted and the payment-provider events.   *)
(* Each handler runs one select and at most one commit.                    *)

\* The external ids of the events: those of the two students and one that
\* no student has.
EventClerkIds == ClerkIds \cup {"user_x"}

\* Mutant: the soft delete also ends the subscription.
DeactivatedAndCanceled(st) ==
    [st EXCEPT !.is_active = FALSE, !.subscription_status = "canceled"]

\* user.deleted: student.is_active = False
Deactivated(st) == [st EXCEPT !.is_active = FALSE]

\* POST /clerk, event user.deleted
clerk_user_deleted(cid) ==
    LET rows == StudentsByClerkId(cid) IN
    /\ UNCHANGED <<lessons, now, ticks, procs, progress, manager>>
    /\ last' = [op |-> "user.deleted", caller |-> cid, code |-> 200]
    /\ IF rows = {}
       THEN UNCHANGED students
       ELSE LET row == CHOOSE i \in rows : TRUE IN
            students' = [students EXCEPT
                            ![row] = Updated(@, Deactivated(@), now)]

\* The events of the payment provider: their type, the customer_email of a
\* checkout session, the customer id, and the status of a subscription.
StripeEvent(type, email, customer, status) ==
    [type |-> type, customer_email |-> email, customer |-> customer,
     status |-> status]

StripeEvents ==
    {StripeEvent("checkout.session.completed", e, "cus_1", "NULL") :
        e \in Emails \cup {"x@x"}}
    \cup {StripeEvent("customer.subscription.updated", "NULL", c, s) :
            c \in {"cus_1", "cus_x"}, s \in {"active", "past_due"}}
    \cup {StripeEvent(t, "NULL", c, "NULL") :
            t \in {"customer.subscription.deleted", "invoice.payment_failed",
                   "charge.succeeded"},
            c \in {"cus_1", "cus_x"}}

\* select(Student).where(Student.email == session.customer_email)
StudentsByEmail(email) ==
    {i \in DOMAIN students : students[i].email = email}

\* select(Student).where(Student.stripe_customer_id == customer)
StudentsByCustomer(customer) ==
    {i \in DOMAIN students : students[i].stripe_customer_id = customer}

\* The rows of the select of the branch of an event.
StripeRows(event) ==
    IF event.type = "checkout.session.completed"
    THEN StudentsByEmail(event.customer_email)
    ELSE StudentsByCustomer(event.customer)

\* The assignments of the branch of an event to the row it found.
StripeApplied(st, event) ==
    CASE event.type = "checkout.session.completed" ->
            Subscribed(st, event.customer)
      [] event.type = "customer.subscription.updated" ->
            [st EXCEPT !.subscription_status = event.status,
                       !.subscription_plan = "nickname"]
      [] event.type = "customer.subscription.deleted" ->
            [st EXCEPT !.subscription_status = "canceled"]
      [] event.type = "invoice.payment_failed" ->
            [st EXCEPT !.subscription_status = "past_due"]

StripeAnswer(event, signed, code) ==
    [op |-> event.type, caller |-> "stripe", event |-> event,
     signed |-> signed, code |-> code]

\* POST /stripe.  signed: the signature check passes (or no secret is
\* configured and the payload parses); plan_ok: the read of
\* subscription.items.data[0].price.nickname returns.
stripe_webhook(event, signed, plan_ok) ==
    LET rows == StripeRows(event) IN
    /\ UNCHANGED <<lessons, now, ticks, procs, progress, manager>>
    /\ IF ~signed
       THEN \* SignatureVerificationError: 400 "Invalid signature"
            /\ last' = StripeAnswer(event, signed, 400)
            /\ UNCHANGED students
       ELSE IF event.type = "charge.succeeded" \/ rows = {}
       THEN /\ last' = StripeAnswer(event, signed, 200)
            /\ UNCHANGED students
       ELSE IF Cardinality(rows) > 1
       THEN \* scalar_one_or_none raises MultipleResultsFound
            /\ last' = StripeAnswer(event, signed, 400)
            /\ UNCHANGED students
       ELSE IF event.type = "customer.subscription.updated" /\ ~plan_ok
       THEN \* the status assigned before is rolled back with the session
            /\ last' = StripeAnswer(event, signed, 400)
            /\ UNCHANGED students
       ELSE LET row == CHOOSE i \in rows : TRUE IN
            /\ last' = StripeAnswer(event, signed, 200)
            /\ students' = [students EXCEPT
                              ![row] = Updated(@, StripeApplied(@, event), now)]

\* Both students have made a first authenticated request.
InitWebhooks ==
    /\ students = <<StudentRow("user_a", EmailOf("user_a"), 0),
                    StudentRow("user_b", EmailOf("user_b"), 0)>>
    /\ lessons = <<>>
    /\ now = 0
    /\ ticks = 0
    /\ last = NoRequest
    /\ progress = <<>>
    /\ manager = NoManager
    /\ procs = <<>>

NextWebhooks ==
    \/ \E cid \in EventClerkIds : clerk_user_deleted(cid)
    \/ \E event \in StripeEvents, signed \in BOOLEAN, plan_ok \in BOOLEAN :
          stripe_webhook(event, signed, plan_ok)
    \/ Tick

SpecWebhooks == InitWebhooks /\ [][NextWebhooks]_vars

----------------------------------------------------------------------------
(* Properties of the webhooks, checked under SpecWebhooks *)

\* The students with the external id of the user.deleted event of this step.
Deleted == {i \in DOMAIN students : students[i].clerk_user_id = last'.caller}

Matched ==
    {i \in DOMAIN students :
        IF last'.op = "checkout.session.completed"
        THEN students[i].email = last'.event.customer_email
        ELSE students[i].stripe_customer_id = last'.event.customer}

\* C13 (as claimed): a payment-provider event that passes the signature
\* check sets the matched student to "active" with the customer id recorded
\* (checkout.session.completed, match by email), to the provider's status
\* (customer.subscription.updated, match by customer id), to "canceled"
\* (customer.subscription.deleted) or to "past_due" (invoice.payment_failed)
\* and changes the subscription state of no other student; an unrecognized
\* event type or an event matching no student answers 200 and changes no
\* student; a failed signature check answers 400 and changes no student.
C13_StripeTransitions ==
    [][ last'.caller = "stripe" =>
          LET event == last'.event IN
          IF ~last'.signed
          THEN last'.code = 400 /\ students' = students
          ELSE IF last'.op = "charge.succeeded" \/ Matched = {}
          THEN last'.code = 200 /\ students' = students
          ELSE \A i \in DOMAIN students :
                  /\ students'[i].subscription_status =
                        IF i \notin Matched
                        THEN students[i].subscription_status
                        ELSE CASE last'.op = "checkout.session.completed" -> "active"
                               [] last'.op = "customer.subscription.updated" -> event.status
                               [] last'.op = "customer.subscription.deleted" -> "canceled"
                               [] last'.op = "invoice.payment_failed" -> "past_due"
                  /\ students'[i].stripe_customer_id =
                        IF i \in Matched /\ last'.op = "checkout.session.completed"
                        THEN event.customer
                        ELSE students[i].stripe_customer_id
      ]_vars

----------------------------------------------------------------------------
(* verify_token (auth.py).  A call is the one entry of procs: the value of *)
(* ENVIRONMENT, the Authorization header, whether CLERK_SECRET_KEY is set, *)
(* and what jwt.decode does with the token.  last is its result.           *)

\* os.getenv("ENVIRONMENT"): "UNSET" stands for None.
Environments == {"UNSET", "", "production", "Development", "development"}

\* The Authorization header: absent (None), or present with a value, the
\* value a sequence of words and empty for the empty string.
AuthorizationHeaders ==
    {[present |-> FALSE, value |-> <<>>],
     [present |-> TRUE, value |-> <<>>],
     [present |-> TRUE, value |-> <<"Basic ", "abc">>],
     [present |-> TRUE, value |-> <<"Bearer ", "tok">>]}

\* jwt.decode: the token has expired, is invalid, cannot be checked with
\* the key, or carries the identity of a user.
DecodeOutcomes == {"expired", "invalid", "key_error"} \cup ClerkIds

VerifyCalls ==
    [kind : {"verify_token"}, env : Environments,
     authorization : AuthorizationHeaders, secret : BOOLEAN,
     decode : DecodeOutcomes]

\* not authorization: None and the empty string.
NoAuthorization(h) == ~h.present \/ h.value = <<>>

\* Mutant: the bypass is open unless the environment is production.
DevelopmentBypassUnlessProduction(env, h) ==
    env # "production" /\ NoAuthorization(h)

\* os.getenv("ENVIRONMENT") == "development" and not authorization
DevelopmentBypass(env, h) ==
    env = "development" /\ NoAuthorization(h)

\* authorization.startswith("Bearer ")
StartsWithBearer(h) == Len(h.value) > 0 /\ h.value[1] = "Bearer "

Verified(call, user_id, code) ==
    [op |-> "verify_token", caller |-> user_id, code |-> code, call |-> call]

\* The result of verify_token: the identity returned with 200, or the
\* status of the HTTPException (500 also for an exception that is not
\* caught).
VerifyResult(call) ==
    IF DevelopmentBypass(call.env, call.authorization)
    THEN Verified(call, "dev_user_123", 200)
    ELSE IF NoAuthorization(call.authorization)
    THEN Verified(call, "none", 401)
    ELSE IF ~StartsWithBearer(call.authorization)
    THEN Verified(call, "none", 401)
    ELSE IF ~call.secret
    THEN Verified(call, "none", 500)
    ELSE IF call.decode \in {"expired", "invalid"}
    THEN Verified(call, "none", 401)
    ELSE IF call.decode = "key_error"
    THEN Verified(call, "none", 500)
    ELSE Verified(call, call.decode, 200)

verify_token ==
    /\ last = NoRequest
    /\ last' = VerifyResult(procs[1])
    /\ UNCHANGED <<students, lessons, now, ticks, procs, progress, manager>>

InitVerify ==
    /\ students = <<>>
    /\ lessons = <<>>
    /\ now = 0
    /\ ticks = 0
    /\ last = NoRequest
    /\ progress = <<>>
    /\ manager = NoManager
    /\ \E call \in VerifyCalls : procs = <<call>>

NextVerify == verify_token

SpecVerify == InitVerify /\ [][NextVerify]_vars

\* C14 (as claimed): verify_token returns the mock identity only when
\* ENVIRONMENT is "development" and no Authorization header is present; for
\* every other value of ENVIRONMENT, the unset one included, a request
\* without a header fails with 401 and no request obtains the mock identity.
C14_Original ==
    last.op = "verify_token" =>
       /\ last.caller = "dev_user_123" =>
             /\ last.call.env = "development"
             /\ ~last.call.authorization.present
       /\ ( /\ last.call.env # "development"
            /\ ~last.call.authorization.present ) => last.code = 401

\* C14 (amended): verify_token returns the mock identity only when
\* ENVIRONMENT is "development" and the Authorization header is absent or
\* empty; for every other value of ENVIRONMENT, the unset one included, a
\* request without a header (or with an empty one) fails with 401 and no
\* request obtains the mock identity.
C14_DevBypassOnly ==
    last.op = "verify_token" =>
       LET h == last.call.authorization
           none == ~h.present \/ Len(h.value) = 0
       IN
       /\ last.caller = "dev_user_123" =>
             (last.call.env = "development" /\ none)
       /\ (last.call.env # "development" /\ none) => last.code = 401

\* A request without a header was refused with ENVIRONMENT unset.
C14_Witness ==
    /\ last.op = "verify_token"
    /\ last.call.env = "UNSET"
    /\ ~last.call.authorization.present
    /\ last.code = 401

----------------------------------------------------------------------------
(* The live tutoring sessions of api/tutoring.py.  A connection is an      *)
(* entry of procs, its position the identity of its WebSocket; its handler *)
(* live_tutoring_session runs from await to await, interleaved with the    *)
(* handlers of the other connections and with the voice tasks.  An entry   *)
(* of active_connections is the connection whose socket it holds; an entry *)
(* of lesson_sessions is the connection that created it and its            *)
(* conversation history.  A student message is named by its connection    *)
(* and its number among the frames of that connection; a history entry    *)
(* and a frame delivered to a socket carry the name of the message they    *)
(* belong to.  conduct_lesson calls the blocking client of the LLM: the    *)
(* handler does not yield between get_session and the send of the reply.  *)

MaxConnections == 2     \* connections opened
MaxMessages == 1        \* message and voice frames of a connection, of two
MaxTurns == 2           \* message frames of a connection, on one lesson id

StoredLessons == {"L1", "L2"}       \* ids the select of the lesson finds
ValidUUIDs == {"L1", "L2", "L0"}    \* ids uuid.UUID() accepts

\* The frame a handler is sending, and the socket it goes to (0: the lesson
\* id has no entry in active_connections and nothing is sent).
Frame(type, conn, turn) == [type |-> type, conn |-> conn, turn |-> turn]

NoFrame == Frame("none", 0, 0)

LiveConn(lid) ==
    [kind |-> "live", lesson |-> lid, pc |-> "accept", sent |-> 0,
     dropped |-> 0, held |-> 0, out |-> NoFrame, to |-> 0,
     voice_enabled |-> FALSE, stale |-> FALSE, inbox |-> <<>>]

\* asyncio.create_task(send_voice_response(lesson_id, ai_response))
VoiceTask(lid, conn, turn) ==
    [kind |-> "voice", lesson |-> lid, pc |-> "tts", conn |-> conn,
     turn |-> turn]

\* ConnectionManager.connect, after the accept
Connected(m, lid, conn) ==
    [active_connections |-> [m.active_connections EXCEPT ![lid] = conn],
     lesson_sessions |-> [m.lesson_sessions EXCEPT
                             ![lid] = [owner |-> conn, history |-> <<>>]]]

\* Mutant: disconnect forgets the session entry.
DisconnectedSocketOnly(m, lid) ==
    [m EXCEPT !.active_connections[lid] = 0]

\* ConnectionManager.disconnect
Disconnected(m, lid) ==
    [active_connections |-> [m.active_connections EXCEPT ![lid] = 0],
     lesson_sessions |-> [m.lesson_sessions EXCEPT ![lid] = NoSession]]

\* Mutant: the entry is appended in front of the history.
Prepended(m, lid, held, entry) ==
    IF m.lesson_sessions[lid].owner = held
    THEN [m EXCEPT !.lesson_sessions[lid].history = <<entry>> \o @]
    ELSE m

\* session["conversation_history"].append(...) on the session object the
\* handler holds: an entry of the dict only while no disconnect or connect
\* has replaced it.
Appended(m, lid, held, entry) ==
    IF m.lesson_sessions[lid].owner = held
    THEN [m EXCEPT !.lesson_sessions[lid].history = Append(@, entry)]
    ELSE m

\* Mutant: the frame goes to the socket of the connection it belongs to.
SendingToOwnSocket(conn, m, frame, pc) ==
    [conn EXCEPT !.out = frame, !.to = frame.conn, !.pc = pc]

\* ConnectionManager.send_message up to its await of send_json: the socket
\* is the one active_connections holds for the lesson id.
Sending(conn, m, frame, pc) ==
    [conn EXCEPT !.out = frame, !.to = m.active_connections[conn.lesson],
                 !.pc = pc]

\* send_json has returned: the frame is with the client of the socket.
Delivered(ps, socket, frame) ==
    IF socket = 0 THEN ps
    ELSE [ps EXCEPT ![socket].inbox = Append(@, frame)]

\* A client opens /live/{lesson_id}: the handler awaits websocket.accept().
live_open(lid) ==
    /\ procs' = Append(procs, LiveConn(lid))
    /\ UNCHANGED <<students, lessons, now, ticks, last, progress, manager>>

\* manager.connect: the accept has returned and both entries are written,
\* or it has raised (outside the try) and the handler is over.
live_accepted(p, ok) ==
    /\ procs[p].pc = "accept"
    /\ IF ok
       THEN /\ manager' = Connected(manager, procs[p].lesson, p)
            /\ procs' = [procs EXCEPT ![p].pc = "select"]
       ELSE /\ procs' = [procs EXCEPT ![p].pc = "done"]
            /\ UNCHANGED manager
    /\ UNCHANGED <<students, lessons, now, ticks, last, progress>>

\* The select of the lesson has returned.  An id that is not a UUID, or a
\* failed query, raises: the handler awaits the send of the error message.
\* Without a lesson it sends "Lesson not found", closes and returns through
\* the finally; with one it loads the student (whose preferred_lesson_times
\* hold "voice_enabled" or not), sends the greeting and awaits the first
\* frame.
live_selected(p, db_ok, voice_enabled) ==
    LET lid == procs[p].lesson IN
    /\ procs[p].pc = "select"
    /\ IF lid \notin ValidUUIDs \/ ~db_ok
       THEN /\ procs' = [procs EXCEPT ![p].pc = "failed"]
            /\ UNCHANGED manager
       ELSE IF lid \notin StoredLessons
       THEN /\ procs' = [procs EXCEPT ![p].pc = "done"]
            /\ manager' = Disconnected(manager, lid)
       ELSE /\ procs' = [procs EXCEPT ![p].pc = "loop",
                                      ![p].voice_enabled = voice_enabled]
            /\ UNCHANGED manager
    /\ UNCHANGED <<students, lessons, now, ticks, last, progress>>

Frames == {"end_session", "message", "voice", "disconnect", "malformed"}

\* websocket.receive_json() has returned a frame or raised.
\*   end_session, disconnect: through the finally.
\*   malformed (no "type", not JSON): the except Exception branch.
\*   voice: handle_voice_message, up to the send of its system message.
\*   message: handle_student_message; without a session it returns at once.
\*     With one it appends the student message to the history and calls
\*     the LLM, up to the send of the reply; when building the profile
\*     raises (the objects of a database session left without rollback
\*     after a failed commit are expired) or the LLM call raises, up to the
\*     send of the error message.
live_received(p, frame, llm_ok) ==
    LET lid == procs[p].lesson
        session == manager.lesson_sessions[lid]
        turn == procs[p].sent + 1
        counted == [procs[p] EXCEPT !.sent = turn]
    IN
    /\ procs[p].pc = "loop"
    /\ IF frame \in {"end_session", "disconnect"}
       THEN /\ procs' = [procs EXCEPT ![p].pc = "done"]
            /\ manager' = Disconnected(manager, lid)
       ELSE IF frame = "malformed"
       THEN /\ procs' = [procs EXCEPT ![p].pc = "failed"]
            /\ UNCHANGED manager
       ELSE IF frame = "voice"
       THEN /\ procs' = [procs EXCEPT ![p] =
                            Sending(counted, manager,
                                    Frame("system", p, turn), "send_system")]
            /\ UNCHANGED manager
       ELSE IF session = NoSession
       THEN \* if not session: return
            /\ procs' = [procs EXCEPT ![p] = [counted EXCEPT !.dropped = @ + 1]]
            /\ UNCHANGED manager
       ELSE LET held == [counted EXCEPT !.held = session.owner] IN
            /\ manager' = Appended(manager, lid, session.owner,
                                   Frame("user", p, turn))
            /\ procs' = [procs EXCEPT ![p] =
                            IF procs[p].stale \/ ~llm_ok
                            THEN Sending(held, manager,
                                         Frame("error", p, turn), "send_error")
                            ELSE Sending(held, manager,
                                         Frame("ai_message", p, turn), "send_reply")]
    /\ UNCHANGED <<students, lessons, now, ticks, last, progress>>

\* The send_json of manager.send_message has returned, or raised.
\*   the reply: it is appended to the history and the Interaction is added;
\*     the handler awaits the commit.  A raise is caught by
\*     handle_student_message, which sends the error message.
\*   the error message, the system message: back to the loop; a raise
\*     leaves the loop through the except Exception branch.
live_sent(p, ok) ==
    LET lid == procs[p].lesson
        conn == procs[p]
        went == ok \/ conn.to = 0
        rest == [conn EXCEPT !.out = NoFrame, !.to = 0]
        with == IF ok THEN Delivered(procs, conn.to, conn.out) ELSE procs
    IN
    /\ procs[p].pc \in {"send_reply", "send_error", "send_system"}
    /\ ok \/ conn.to # 0
    /\ IF conn.pc = "send_reply"
       THEN IF went
            THEN /\ manager' = Appended(manager, lid, conn.held,
                                        Frame("ai", p, conn.out.turn))
                 /\ procs' = [with EXCEPT ![p].pc = "commit"]
            ELSE /\ procs' = [procs EXCEPT ![p] =
                                 Sending(conn, manager,
                                         Frame("error", p, conn.out.turn),
                                         "send_error")]
                 /\ UNCHANGED manager
       ELSE /\ procs' = IF went
                        THEN [with EXCEPT ![p].pc = "loop", ![p].held = 0,
                                          ![p].out = NoFrame, ![p].to = 0]
                        ELSE [procs EXCEPT ![p] = [rest EXCEPT !.pc = "failed"]]
            /\ UNCHANGED manager
    /\ UNCHANGED <<students, lessons, now, ticks, last, progress>>

\* await db.commit() of the Interaction has returned, or raised.  After it
\* the voice task is created for a student with voice enabled, and the
\* handler is back in the loop.  A raise leaves the database session
\* without rollback and is answered with the error message.
live_committed(p, ok) ==
    LET conn == procs[p]
        back == [conn EXCEPT !.pc = "loop", !.held = 0, !.out = NoFrame,
                             !.to = 0]
    IN
    /\ procs[p].pc = "commit"
    /\ procs' = IF ~ok
                THEN [procs EXCEPT ![p] =
                         Sending([conn EXCEPT !.stale = TRUE], manager,
                                 Frame("error", p, conn.out.turn), "send_error")]
                ELSE IF conn.voice_enabled
                THEN Append([procs EXCEPT ![p] = back],
                            VoiceTask(conn.lesson, p, conn.out.turn))
                ELSE [procs EXCEPT ![p] = back]
    /\ UNCHANGED <<students, lessons, now, ticks, last, progress, manager>>

\* send_voice_response: text_to_speech has returned, and the audio goes to
\* the socket active_connections holds for the lesson id; or it has raised
\* and the error is logged.
voice_synthesized(v, ok) ==
    LET socket == manager.active_connections[procs[v].lesson]
        over == [procs EXCEPT ![v].pc = "done"]
    IN
    /\ procs[v].pc = "tts"
    /\ procs' = IF ok
                THEN Delivered(over, socket,
                               Frame("ai_voice", procs[v].conn, procs[v].turn))
                ELSE over
    /\ UNCHANGED <<students, lessons, now, ticks, last, progress, manager>>

\* The except Exception branch: the error message is sent (or its send has
\* raised), then the finally.
live_failed(p) ==
    /\ procs[p].pc = "failed"
    /\ procs' = [procs EXCEPT ![p].pc = "done"]
    /\ manager' = Disconnected(manager, procs[p].lesson)
    /\ UNCHANGED <<students, lessons, now, ticks, last, progress>>

InitLive ==
    /\ students = <<>>
    /\ lessons = <<>>
    /\ now = 0
    /\ ticks = 0
    /\ last = NoRequest
    /\ procs = <<>>
    /\ progress = <<>>
    /\ manager = NoManager

Connections == {p \in DOMAIN procs : procs[p].kind = "live"}

NextLive ==
    \/ /\ Cardinality(Connections) < MaxConnections
       /\ \E lid \in LiveLessonIds : live_open(lid)
    \/ \E p \in Connections, ok \in BOOLEAN : live_accepted(p, ok)
    \/ \E p \in Connections, ok \in BOOLEAN, voice \in BOOLEAN :
          live_selected(p, ok, voice)
    \/ \E p \in Connections, frame \in Frames, ok \in BOOLEAN :
          /\ frame \in {"message", "voice"} => procs[p].sent < MaxMessages
          /\ live_received(p, frame, ok)
    \/ \E p \in Connections, ok \in BOOLEAN : live_sent(p, ok)
    \/ \E p \in Connections, ok \in BOOLEAN : live_committed(p, ok)
    \/ \E v \in DOMAIN procs \ Connections, ok \in BOOLEAN :
          voice_synthesized(v, ok)
    \/ \E p \in Connections : live_failed(p)

SpecLive == InitLive /\ [][NextLive]_vars

\* The turns of the connections to one stored lesson: each connection sends
\* up to MaxTurns messages and ends its session; the student has no voice.
NextTurns ==
    \/ /\ Cardinality(Connections) < MaxConnections
       /\ live_open("L1")
    \/ \E p \in Connections : live_accepted(p, TRUE)
    \/ \E p \in Connections : live_selected(p, TRUE, FALSE)
    \/ \E p \in Connections, frame \in {"message", "end_session"}, ok \in BOOLEAN :
          /\ frame = "message" => procs[p].sent < MaxTurns
          /\ live_received(p, frame, ok)
    \/ \E p \in Connections, ok \in BOOLEAN : live_sent(p, ok)
    \/ \E p \in Connections, ok \in BOOLEAN : live_committed(p, ok)
    \/ \E p \in Connections : live_failed(p)

SpecTurns == InitLive /\ [][NextTurns]_vars

----------------------------------------------------------------------------
(* Properties of the live sessions, checked under SpecLive *)

\* C15: once the handler of a connection has terminated (end_session,
\* disconnect, lesson not found, any error), the connection manager holds
\* no connection entry and no session entry that this connection created.
C15_NoEntryAfterEnd ==
    \A p \in DOMAIN procs :
        procs[p].pc = "done" =>
           \A l \in LiveLessonIds :
              /\ manager.active_connections[l] # p
              /\ manager.lesson_sessions[l].owner # p

\* A connection whose message was answered on its socket has ended while
\* another connection is open.
C15_Witness ==
    \E p, q \in DOMAIN procs :
        /\ procs[p].pc = "done"
        /\ procs[p].kind = "live"
        /\ \E i \in DOMAIN procs[p].inbox : procs[p].inbox[i].type = "ai_message"
        /\ procs[q].pc = "loop"

\* The connections that are open: greeted, and in their message loop.
OpenConnections ==
    {q \in DOMAIN procs :
        procs[q].pc \in {"loop", "send_reply", "send_error", "send_system",
                         "commit"}}

\* C20 (as claimed): when one of two concurrently open connections ends, on
\* different lesson ids or on the same one, the other still has its
\* connection entry and its session entry, and no text message of an open
\* connection goes unanswered for want of its session.
C20_OnlyOwnState ==
    [][ /\ \A p \in DOMAIN procs, q \in OpenConnections :
              ( /\ p # q
                /\ p \in OpenConnections
                /\ procs'[p].pc = "done" )
              => /\ manager'.active_connections[procs[q].lesson] = q
                 /\ manager'.lesson_sessions[procs[q].lesson].owner = q
        /\ \A q \in Connections : procs'[q].dropped = procs[q].dropped
      ]_vars

----------------------------------------------------------------------------
(* evaluate_placement (main.py).  A call is the one entry of procs: the    *)
(* answers of the request, a list of sections, each a list of answer       *)
(* records.  last is the response.                                         *)

MaxSection == 10        \* answer records of a section

\* A section with c correct answers, w wrong ones and m records without the
\* key "correct".
Section(c, w, m) ==
    [i \in 1..(c + w + m) |->
        IF i <= c THEN [correct |-> TRUE]
        ELSE IF i <= c + w THEN [correct |-> FALSE]
        ELSE [skipped |-> TRUE]]

Sections ==
    {Section(c, w, m) : c \in 0..MaxSection, w \in 0..MaxSection, m \in 0..1}

AnswerSets ==
    {<<s1, s2>> : s1 \in {s \in Sections : Len(s) <= MaxSection},
                  s2 \in {s \in Sections : Len(s) <= MaxSection}}

\* answer.get("correct", False)
IsCorrect(answer) == "correct" \in DOMAIN answer /\ answer.correct

\* The two counters after the loops over the sections from k on and over
\* the records of section k from i on.
RECURSIVE Counted(_, _, _, _)
Counted(answers, k, i, count) ==
    IF k > Len(answers) THEN count
    ELSE IF i > Len(answers[k]) THEN Counted(answers, k + 1, 1, count)
    ELSE Counted(answers, k, i + 1,
                 [total |-> count.total + 1,
                  score |-> count.score
                               + IF IsCorrect(answers[k][i]) THEN 1 ELSE 0])

\* (score / total) * 100 if total > 0 else 0, as the fraction it stands
\* for.  The double the code computes lies on the same side of each of the
\* thresholds as this fraction for every total of the model.
Percentage(score, total) ==
    IF total > 0 THEN <<100 * score, total>> ELSE <<0, 1>>

\* Mutant: percentage < h
Below(percentage, h) == percentage[1] < h * percentage[2]

\* percentage <= h
AtMost(percentage, h) == percentage[1] <= h * percentage[2]

\* Determine level based on score
RecommendedLevel(score, total) ==
    LET percentage == Percentage(score, total) IN
    IF AtMost(percentage, 30) THEN 0
    ELSE IF AtMost(percentage, 45) THEN 1
    ELSE IF AtMost(percentage, 60) THEN 3
    ELSE IF AtMost(percentage, 75) THEN 4
    ELSE IF AtMost(percentage, 85) THEN 6
    ELSE 7

\* POST /api/assessment/evaluate
evaluate_placement ==
    LET count == Counted(procs[1].answers, 1, 1, [total |-> 0, score |-> 0]) IN
    /\ last = NoRequest
    /\ last' = [op |-> "evaluate", caller |-> "none", code |-> 200,
                score |-> count.score, total |-> count.total,
                recommended_level |-> RecommendedLevel(count.score, count.total)]
    /\ UNCHANGED <<students, lessons, now, ticks, procs, progress, manager>>

InitPlacement ==
    /\ students = <<>>
    /\ lessons = <<>>
    /\ now = 0
    /\ ticks = 0
    /\ last = NoRequest
    /\ \E answers \in AnswerSets :
          procs = <<[kind |-> "evaluate", answers |-> answers]>>
    /\ progress = <<>>
    /\ manager = NoManager

NextPlacement == evaluate_placement

SpecPlacement == InitPlacement /\ [][NextPlacement]_vars

\* The answer records of the request of the call, as (section, position).
Records ==
    {<<k, i>> \in (DOMAIN procs[1].answers) \X (1..MaxSection) :
        i <= Len(procs[1].answers[k])}

CorrectRecords ==
    {r \in Records :
        /\ "correct" \in DOMAIN procs[1].answers[r[1]][r[2]]
        /\ procs[1].answers[r[1]][r[2]].correct = TRUE}

\* The brackets of the claim: the upper end of each and its level.
Brackets == <<<<30, 0>>, <<45, 1>>, <<60, 3>>, <<75, 4>>, <<85, 6>>, <<100, 7>>>>

\* C16: the recommended level is the level of the first bracket whose upper
\* end is not below percentage = 100 * correct / total, counted over all
\* answer records of all sections, an empty answer set counting as 0
\* percent; it does not fall when the number of correct answers grows for
\* the same total; 18 of 20 give level 7 and 12 of 20 give level 3.
C16_PlacementBrackets ==
    last.op = "evaluate" =>
       LET total == Cardinality(Records)
           correct == Cardinality(CorrectRecords)
           first == CHOOSE b \in DOMAIN Brackets :
                       /\ total > 0 => 100 * correct <= Brackets[b][1] * total
                       /\ \A a \in 1..(b - 1) :
                             /\ total > 0
                             /\ 100 * correct > Brackets[a][1] * total
       IN
       /\ last.total = total
       /\ last.score = correct
       /\ last.recommended_level = Brackets[first][2]
       /\ \A fewer \in 0..correct :
             RecommendedLevel(fewer, total) <= last.recommended_level
       /\ (total = 20 /\ correct = 18) => last.recommended_level = 7
       /\ (total = 20 /\ correct = 12) => last.recommended_level = 3

\* 12 correct answers out of 20, in two sections, have been evaluated.
C16_Witness ==
    /\ last.op = "evaluate"
    /\ last.total = 20
    /\ last.score = 12
    /\ last.recommended_level = 3

----------------------------------------------------------------------------
(* POST /assess (api/progress.py).  The lessons of this part carry their   *)
(* overall_performance_score; an average is the pair <<sum, count>>.       *)

MaxAssessed == 4        \* rows of table lessons when the requests begin

\* A lesson as the assessment reads it.
AssessedLesson(sid, status, score) ==
    [NewLesson(sid, 0, 60) EXCEPT !.status = status]
       @@ [overall_performance_score |-> score]

AssessedLessons ==
    {AssessedLesson(sid, status, score) :
        sid \in {1, 2}, status \in {"completed", "scheduled"},
        score \in {NULL, 60}}

\* The completed lessons of a student (the query keeps the 10 most recent;
\* the tables of the model hold fewer).
CompletedLessons(sid) ==
    {i \in DOMAIN lessons :
        /\ lessons[i].student_id = sid
        /\ lessons[i].status = "completed"}

\* sum(l.overall_performance_score or 0 for l in lessons)
RECURSIVE ScoreSum(_)
ScoreSum(rows) ==
    IF rows = {} THEN 0
    ELSE LET i == CHOOSE r \in rows : TRUE
             score == lessons[i].overall_performance_score
         IN (IF score = NULL THEN 0 ELSE score) + ScoreSum(rows \ {i})

\* determine_cefr_level, of an average
determine_cefr_level(avg) ==
    IF avg[1] >= 85 * avg[2] THEN "C2"
    ELSE IF avg[1] >= 70 * avg[2] THEN "C1"
    ELSE IF avg[1] >= 55 * avg[2] THEN "B2"
    ELSE IF avg[1] >= 40 * avg[2] THEN "B1"
    ELSE IF avg[1] >= 25 * avg[2] THEN "A2"
    ELSE "A1"

\* Progress(...): improvement_rate and peer_percentile are given the calls
\* of two async functions that are not awaited, that is, coroutine objects.
ProgressRow(sid, avg_overall, t) ==
    [student_id |-> sid, assessment_type |-> "periodic",
     overall_level |-> avg_overall,
     cefr_level |-> determine_cefr_level(avg_overall),
     improvement_rate |-> "coroutine", peer_percentile |-> "coroutine",
     assessment_date |-> t]

\* A coroutine object is no value of a Float column: the driver refuses to
\* bind it and the INSERT fails at the commit.
InsertRefused(row) ==
    \/ row.improvement_rate = "coroutine"
    \/ row.peer_percentile = "coroutine"

AssessAnswer(cid, llm_ok, code) ==
    [op |-> "assess", caller |-> cid, llm |-> llm_ok, code |-> code]

\* POST /assess.  llm_ok: the call of the LLM returns.  No exception is
\* caught: a failed LLM call and a failed commit answer 500, and the
\* session is rolled back.
create_progress_assessment(cid, llm_ok) ==
    LET me == CurrentUserId(cid)
        db == ProfilesAfterAuth(cid)
        recent == CompletedLessons(me)
        row == ProgressRow(me, <<ScoreSum(recent), Cardinality(recent)>>, now)
    IN
    /\ UNCHANGED <<lessons, now, ticks, procs, manager>>
    /\ IF CurrentUserFails(cid)
       THEN /\ last' = AssessAnswer(cid, llm_ok, 500)
            /\ UNCHANGED <<students, progress>>
       ELSE IF Cardinality(recent) < 3
       THEN /\ last' = AssessAnswer(cid, llm_ok, 400)
            /\ students' = db
            /\ UNCHANGED progress
       ELSE IF ~llm_ok \/ InsertRefused(row)
       THEN /\ last' = AssessAnswer(cid, llm_ok, 500)
            /\ students' = db
            /\ UNCHANGED progress
       ELSE /\ last' = AssessAnswer(cid, llm_ok, 200)
            /\ progress' = Append(progress, row)
            /\ students' = [db EXCEPT ![me] =
                              Updated(@, [@ EXCEPT !.english_level = row.cefr_level], now)]

\* Both students have made a first authenticated request; the lessons table
\* holds lessons of theirs, some completed.
InitProgress ==
    /\ students = <<StudentRow("user_a", EmailOf("user_a"), 0),
                    StudentRow("user_b", EmailOf("user_b"), 0)>>
    /\ \E n \in 0..MaxAssessed : lessons \in [1..n -> AssessedLessons]
    /\ now = 0
    /\ ticks = 0
    /\ last = NoRequest
    /\ procs = <<>>
    /\ progress = <<>>
    /\ manager = NoManager

NextProgress ==
    \E cid \in ClerkIds, llm_ok \in BOOLEAN : create_progress_assessment(cid, llm_ok)

SpecProgress == InitProgress /\ [][NextProgress]_vars

\* C17 (as claimed): create_progress_assessment for a student with fewer
\* than 3 completed lessons answers 400, creates no Progress record and
\* leaves the student's english_level; with 3 or more (and the LLM
\* answering) it succeeds, creates exactly one Progress record with a
\* non-null overall_level, and sets english_level to its cefr_level.
C17_AssessmentThreshold ==
    [][ (last'.op = "assess" /\ last'.llm) =>
          LET done == {i \in DOMAIN lessons :
                          /\ lessons[i].student_id = Caller
                          /\ lessons[i].status = "completed"}
          IN
          IF Cardinality(done) < 3
          THEN /\ last'.code = 400
               /\ progress' = progress
               /\ students'[Caller].english_level = students[Caller].english_level
          ELSE /\ last'.code = 200
               /\ Len(progress') = Len(progress) + 1
               /\ progress'[Len(progress')].overall_level # NULL
               /\ students'[Caller].english_level =
                     progress'[Len(progress')].cefr_level
      ]_vars

----------------------------------------------------------------------------
(* POST /schedule under concurrency.  Each request is an entry of procs    *)
(* with its own database session; it runs from await to await: the select  *)
(* of get_current_user, the conflict query, the generation of the lesson   *)
(* plan, the commit.  The Student object of a request holds the values its *)
(* select loaded; the commit writes the columns the handler assigned.      *)

MaxScheduleRequests == 2    \* schedule requests started

ScheduleProc(cid, start, dur) ==
    [kind |-> "schedule", cid |-> cid, start |-> start, dur |-> dur,
     pc |-> "auth", row |-> 0, loaded |-> NoRequest, code |-> 0, lesson |-> 0]

\* The request arrives: get_current_user awaits its select.
schedule_begin(cid, start, dur) ==
    /\ procs' = Append(procs, ScheduleProc(cid, start, dur))
    /\ UNCHANGED <<students, lessons, now, ticks, last, progress, manager>>

\* get_current_user: the select has returned the caller's row (a caller
\* without a row gets one, or the refusal of its INSERT answers 500).
schedule_authenticated(p) ==
    LET cid == procs[p].cid
        me == CurrentUserId(cid)
        db == StudentsAfterAuth(cid)
    IN
    /\ procs[p].kind = "schedule"
    /\ procs[p].pc = "auth"
    /\ IF CurrentUserFails(cid)
       THEN /\ procs' = [procs EXCEPT ![p].pc = "done", ![p].code = 500]
            /\ UNCHANGED students
       ELSE /\ procs' = [procs EXCEPT ![p].pc = "query", ![p].row = me,
                                      ![p].loaded = db[me]]
            /\ students' = db
    /\ UNCHANGED <<lessons, now, ticks, last, progress, manager>>

\* The conflict query has returned the committed lessons that overlap; the
\* entitlement check reads the Student object of the request.
schedule_queried(p) ==
    LET end == procs[p].start + procs[p].dur * SecondsPerMinute
        conflict == ConflictRows(procs[p].row, procs[p].start, end)
        code == IF Cardinality(conflict) > 1 THEN 500
                ELSE IF conflict # {} THEN 400
                ELSE IF NoTrialLeft(procs[p].loaded) THEN 403
                ELSE 0
    IN
    /\ procs[p].kind = "schedule"
    /\ procs[p].pc = "query"
    /\ procs' = [procs EXCEPT ![p].code = code,
                              ![p].pc = IF code = 0 THEN "plan" ELSE "done"]
    /\ UNCHANGED <<students, lessons, now, ticks, last, progress, manager>>

\* generate_lesson_plan has returned, or raised (500).
schedule_planned(p, plan_ok) ==
    /\ procs[p].kind = "schedule"
    /\ procs[p].pc = "plan"
    /\ procs' = IF plan_ok
                THEN [procs EXCEPT ![p].pc = "commit"]
                ELSE [procs EXCEPT ![p].pc = "done", ![p].code = 500]
    /\ UNCHANGED <<students, lessons, now, ticks, last, progress, manager>>

\* db.add(lesson), the decrement on the Student object, and the commit: the
\* INSERT of the lesson and, for a trial student, the UPDATE that sets
\* trial_lessons_remaining to the value of the object.
schedule_committed(p) ==
    LET me == procs[p].row
        charged == ChargeTrial(procs[p].loaded)
    IN
    /\ procs[p].kind = "schedule"
    /\ procs[p].pc = "commit"
    /\ lessons' = Append(lessons, NewLesson(me, procs[p].start, procs[p].dur))
    /\ students' = [students EXCEPT ![me].trial_lessons_remaining =
                                        charged.trial_lessons_remaining]
    /\ procs' = [procs EXCEPT ![p].pc = "done", ![p].code = 200,
                              ![p].lesson = Len(lessons) + 1]
    /\ UNCHANGED <<now, ticks, last, progress, manager>>

NextSchedule ==
    \/ /\ Len(procs) < MaxScheduleRequests
       /\ \E cid \in ClerkIds, start \in Starts, dur \in Durations :
             schedule_begin(cid, start, dur)
    \/ \E p \in DOMAIN procs : schedule_authenticated(p)
    \/ \E p \in DOMAIN procs : schedule_queried(p)
    \/ \E p \in DOMAIN procs, ok \in BOOLEAN : schedule_planned(p, ok)
    \/ \E p \in DOMAIN procs : schedule_committed(p)

SpecSchedule == Init /\ [][NextSchedule]_vars

\* C18 (as claimed): of two schedule requests of one student for
\* overlapping intervals that interleave at their awaits at most one is
\* accepted, and no state has two overlapping lessons of one student with
\* status scheduled or in_progress.
C18_NoOverlapConcurrent ==
    /\ \A p, q \in DOMAIN procs :
          ( /\ p # q
            /\ procs[p].code = 200 /\ procs[q].code = 200
            /\ procs[p].row = procs[q].row )
          => ~ ( /\ procs[p].start < procs[q].start + procs[q].dur * SecondsPerMinute
                 /\ procs[q].start < procs[p].start + procs[p].dur * SecondsPerMinute )
    /\ \A i, j \in DOMAIN lessons :
          ( /\ i # j
            /\ lessons[i].student_id = lessons[j].student_id
            /\ {lessons[i].status, lessons[j].status}
                  \subseteq {"scheduled", "in_progress"} )
          => \/ lessons[i].scheduled_end <= lessons[j].scheduled_start
             \/ lessons[j].scheduled_end <= lessons[i].scheduled_start

----------------------------------------------------------------------------
(* The duration recorded by end_lesson. *)

\* The lesson ended by the step, and the whole seconds from its actual_start
\* to its actual_end.
EndedLesson == lessons'[last'.lesson]

ElapsedSeconds == EndedLesson.actual_end - EndedLesson.actual_start

EndAccepted == last'.op = "end" /\ last'.code = 200

\* C19 (as claimed): on end, duration_minutes is the elapsed time
\* actual_end - actual_start in minutes rounded to the nearest whole minute
\* (half a minute rounds up: 90 seconds are 2 minutes).
C19_Original ==
    [][EndAccepted =>
          /\ 2 * SecondsPerMinute * EndedLesson.duration_minutes
                <= 2 * ElapsedSeconds + SecondsPerMinute
          /\ 2 * ElapsedSeconds + SecondsPerMinute
                < 2 * SecondsPerMinute * (EndedLesson.duration_minutes + 1)]_vars

\* C19 (amended): on end, duration_minutes is the number of whole minutes
\* contained in the elapsed time actual_end - actual_start: the elapsed
\* minutes with the fraction dropped, never rounded up.
C19_DurationTruncated ==
    [][EndAccepted =>
          /\ SecondsPerMinute * EndedLesson.duration_minutes <= ElapsedSeconds
          /\ ElapsedSeconds < SecondsPerMinute * (EndedLesson.duration_minutes + 1)]_vars

\* C19 witness: a lesson has been ended a minute and a half after its start
\* and records one minute.
C19_Witness ==
    /\ last.op = "end" /\ last.code = 200
    /\ lessons[last.lesson].status = "completed"
    /\ 2 * (lessons[last.lesson].actual_end - lessons[last.lesson].actual_start)
          = 3 * SecondsPerMinute
    /\ lessons[last.lesson].duration_minutes = 1

----------------------------------------------------------------------------
(* Properties of the turns of a live session, checked under SpecTurns *)

\* The entries of a sequence of frames (or of history entries) that belong
\* to the messages of connection p are in the order of its messages, the
\* entries of one message in the order of the roles given.
InArrivalOrder(seq, p, first, second) ==
    \A i, j \in DOMAIN seq :
        (i < j /\ seq[i].conn = p /\ seq[j].conn = p)
        => \/ seq[i].turn < seq[j].turn
           \/ /\ seq[i].turn = seq[j].turn
              /\ seq[i].type = first
              /\ seq[j].type = second

\* C21: within one live connection the text messages are handled in arrival
\* order: while the handler is busy with a message no later message of the
\* connection has been received, and the ai_message replies are sent, and
\* appended to the conversation history after the student message that
\* caused them, in the order of the student messages.
C21_ArrivalOrder ==
    \A p \in Connections :
        /\ procs[p].out # NoFrame => procs[p].out.turn = procs[p].sent
        /\ procs[p].pc \in {"send_reply", "send_error", "commit"}
              => procs[p].out # NoFrame
        /\ \A q \in Connections :
              InArrivalOrder(SelectSeq(procs[q].inbox,
                                       LAMBDA f : f.type = "ai_message"),
                             p, "none", "none")
        /\ \A l \in LiveLessonIds :
              InArrivalOrder(manager.lesson_sessions[l].history, p, "user", "ai")

\* C21 witness: a connection has sent two messages, both were answered on
\* its socket and the history holds the two turns.
C21_Witness ==
    \E p \in Connections :
        /\ procs[p].pc = "loop"
        /\ procs[p].sent = MaxTurns
        /\ Len(SelectSeq(procs[p].inbox, LAMBDA f : f.type = "ai_message")) = 2
        /\ Len(manager.lesson_sessions[procs[p].lesson].history) = 4


\* The connection is the one its lesson id is registered for.
Registered(m, p) ==
    /\ m.active_connections[procs[p].lesson] = p
    /\ m.lesson_sessions[procs[p].lesson].owner = p

\* C22 (as claimed): a failure while handling a text message of a live
\* session (the LLM call, or the commit of the Interaction) sends an error
\* frame to the connection and does not end the session: the connection
\* and its session entry stay in place, the handler goes back to its loop
\* when the frame is sent, and the next message is handled: it is answered
\* with an error frame only if handling it fails anew, never because of
\* the earlier failure.
C22_FailureKeepsSession ==
    [][\A p \in Connections :
          /\ ( /\ Registered(manager, p)
               /\ procs[p].pc \in {"loop", "commit"}
               /\ procs'[p].pc = "send_error" )
             => /\ procs'[p].to = p
                /\ Registered(manager', p)
                /\ ~procs'[p].stale
          /\ ( /\ Registered(manager, p)
               /\ procs[p].pc = "send_error"
               /\ procs[p].to = p
               /\ Len(procs'[p].inbox) > Len(procs[p].inbox) )
             => /\ procs'[p].pc = "loop"
                /\ Registered(manager', p)
      ]_vars

----------------------------------------------------------------------------
(* The scripted lesson of routes/proactive_tutor.py.  The server keeps no  *)
(* state: a client is an entry of procs, holding the stage it will submit  *)
(* next ("null" once the server has returned no next stage) and the        *)
(* responses it has received.  lesson_progress is kept in hundredths.      *)

MaxClients == 3     \* clients walking a lesson

stage_order ==
    <<"intro", "section1", "section2", "section3", "practice", "review",
      "closing">>

Stages == {stage_order[i] : i \in DOMAIN stage_order}

stage_to_progress ==
    [s \in Stages |->
        CASE s = "intro" -> 10 [] s = "section1" -> 25 [] s = "section2" -> 45
          [] s = "section3" -> 65 [] s = "practice" -> 80 [] s = "review" -> 90
          [] s = "closing" -> 100]

\* stage_order.index(stage)
IndexOf(stage) == CHOOSE i \in DOMAIN stage_order : stage_order[i] = stage

\* Mutant: the stage after the last is the first again.
NextStageAround(stage) ==
    stage_order[(IndexOf(stage) % Len(stage_order)) + 1]

\* lead_class: determine next stage
NextStage(stage) ==
    IF IndexOf(stage) < Len(stage_order)
    THEN stage_order[IndexOf(stage) + 1]
    ELSE "null"

TeacherResponse(stage, next_stage, lesson_progress) ==
    [stage |-> stage, next_stage |-> next_stage,
     lesson_progress |-> lesson_progress]

ScriptedClient(first, stage, responses) ==
    [kind |-> "scripted", first |-> first, stage |-> stage,
     responses |-> responses]

\* A client begins its walk by calling lead-class with stage intro.
client_begin ==
    /\ procs' = Append(procs, ScriptedClient("lead-class", "intro", <<>>))
    /\ UNCHANGED <<students, lessons, now, ticks, last, progress, manager>>

\* POST /start-lesson: the intro section, next_stage section1, progress 0.
start_scripted_lesson ==
    /\ procs' = Append(procs,
                       ScriptedClient("start-lesson", "section1",
                                      <<TeacherResponse("intro", "section1", 0)>>))
    /\ UNCHANGED <<students, lessons, now, ticks, last, progress, manager>>

\* POST /lead-class with the stage the client holds; the client takes the
\* returned next_stage as the stage of its next call.
lead_class(c) ==
    LET stage == procs[c].stage
        response == TeacherResponse(stage, NextStage(stage),
                                    stage_to_progress[stage])
    IN
    /\ stage # "null"
    /\ procs' = [procs EXCEPT ![c].stage = response.next_stage,
                              ![c].responses = Append(@, response)]
    /\ UNCHANGED <<students, lessons, now, ticks, last, progress, manager>>

InitScripted ==
    /\ students = <<>>
    /\ lessons = <<>>
    /\ now = 0
    /\ ticks = 0
    /\ last = NoRequest
    /\ procs = <<>>
    /\ progress = <<>>
    /\ manager = NoManager

NextScripted ==
    \/ /\ Len(procs) < MaxClients
       /\ client_begin
    \/ /\ Len(procs) < MaxClients
       /\ start_scripted_lesson
    \/ \E c \in DOMAIN procs : lead_class(c)

SpecScripted == InitScripted /\ [][NextScripted]_vars

\* C23: a client that starts at stage intro and calls lead-class with the
\* stage set to the next_stage last returned visits intro, section1,
\* section2, section3, practice, review, closing in this order, each once;
\* next_stage is null exactly at closing, so the walk ends after seven
\* stages; lesson_progress is strictly increasing along the walk and is 1.0
\* at closing.
C23_ScriptedWalk ==
    \A c \in DOMAIN procs :
        procs[c].first = "lead-class" =>
           LET walk == procs[c].responses IN
           /\ Len(walk) <= Len(stage_order)
           /\ \A i \in DOMAIN walk :
                 /\ walk[i].stage = stage_order[i]
                 /\ walk[i].next_stage = "null" <=> walk[i].stage = "closing"
                 /\ walk[i].stage = "closing" => walk[i].lesson_progress = 100
                 /\ i > 1 => walk[i].lesson_progress > walk[i - 1].lesson_progress
           /\ procs[c].stage = "null" <=> Len(walk) = Len(stage_order)

\* C23 witness: a client that started at intro has finished its walk.
C23_Witness ==
    \E c \in DOMAIN procs :
        /\ procs[c].first = "lead-class"
        /\ procs[c].stage = "null"
        /\ Len(procs[c].responses) = Len(stage_order)

----------------------------------------------------------------------------
(* calculate_improvement_rate, applied to the assessments the progress     *)
(* table holds when create_progress_assessment calls it (the new record is *)
(* not yet added).  A rate is a fraction; a computation is an entry of     *)
(* procs with its arguments and its result.                                *)

MaxEarlier == 3         \* rows of table progress when the computations begin
MaxRates == 1           \* computations of a rate
SecondsPerDay == 86400

EarlierAssessment(sid, level, date) ==
    [student_id |-> sid, overall_level |-> level, assessment_date |-> date]

EarlierAssessments ==
    {EarlierAssessment(sid, level, day * SecondsPerDay) :
        sid \in {1, 2}, level \in {50, 60}, day \in {0, 5, 10}}

\* timedelta.days of t - date
DaysSince(date, t) == (t - date) \div SecondsPerDay

Rate(num, den) == [num |-> num, den |-> den]

\* The rows the query can return: the assessments of the student ordered
\* by assessment_date, latest first, offset 1, limit 1 (rows of equal date
\* come in either order).
OffsetRows(sid) ==
    {i \in DOMAIN progress :
        LET later == {k \in DOMAIN progress \ {i} :
                         /\ progress[k].student_id = sid
                         /\ progress[k].assessment_date > progress[i].assessment_date}
            notEarlier == {k \in DOMAIN progress \ {i} :
                              /\ progress[k].student_id = sid
                              /\ progress[k].assessment_date >= progress[i].assessment_date}
        IN /\ progress[i].student_id = sid
           /\ Cardinality(later) <= 1
           /\ notEarlier # {}}

\* The value returned for the row the query gave (0: none).
ImprovementRate(prev, current_score, t) ==
    IF prev # 0 /\ DaysSince(progress[prev].assessment_date, t) > 0
    THEN Rate(current_score - progress[prev].overall_level,
              DaysSince(progress[prev].assessment_date, t))
    ELSE Rate(0, 1)

calculate_improvement_rate(student_id, current_score) ==
    /\ Len(procs) < MaxRates
    /\ \E prev \in IF OffsetRows(student_id) = {} THEN {0}
                   ELSE OffsetRows(student_id) :
          procs' = Append(procs,
                          [kind |-> "rate", student_id |-> student_id,
                           current_score |-> current_score,
                           rate |-> ImprovementRate(prev, current_score, now)])
    /\ UNCHANGED <<students, lessons, now, ticks, last, progress, manager>>

InitImprovement ==
    /\ students = <<StudentRow("user_a", EmailOf("user_a"), 0),
                    StudentRow("user_b", EmailOf("user_b"), 0)>>
    /\ lessons = <<>>
    /\ now = 10 * SecondsPerDay
    /\ ticks = 0
    /\ last = NoRequest
    /\ procs = <<>>
    /\ \E n \in 0..MaxEarlier : progress \in [1..n -> EarlierAssessments]
    /\ manager = NoManager

NextImprovement ==
    \E sid \in {1, 2}, score \in {55, 70} : calculate_improvement_rate(sid, score)

SpecImprovement == InitImprovement /\ [][NextImprovement]_vars

\* The most recent assessments of a student.
MostRecent(sid) ==
    {i \in DOMAIN progress :
        /\ progress[i].student_id = sid
        /\ \A k \in DOMAIN progress :
              progress[k].student_id = sid
              => progress[k].assessment_date <= progress[i].assessment_date}

\* C24 (as claimed): the improvement rate is (new avg_overall - overall_level
\* of the student's most recent assessment existing before this one)
\* divided by the whole days elapsed since that assessment, and 0 when the
\* student has no earlier assessment or zero days have elapsed (one earlier
\* assessment with overall_level 60 dated 10 days ago and avg_overall 70
\* give 1.0).
C24_ImprovementRate ==
    \A c \in DOMAIN procs :
        LET recent == MostRecent(procs[c].student_id)
            rate == procs[c].rate
        IN
        IF recent = {}
        THEN rate.num = 0
        ELSE \E i \in recent :
                LET days == DaysSince(progress[i].assessment_date, now) IN
                IF days = 0
                THEN rate.num = 0
                ELSE rate.num * days
                        = (procs[c].current_score - progress[i].overall_level)
                             * rate.den

----------------------------------------------------------------------------
(* The timestamps of a lesson, checked under Spec *)

\* C25: in every state reached by schedule, start, end, cancel and rate
\* requests a scheduled lesson has actual_start, actual_end and canceled_at
\* unset; an in_progress lesson has actual_start set and actual_end unset; a
\* completed lesson has both set, with actual_end >= actual_start and
\* duration_minutes >= 0; a canceled lesson has canceled_at set and
\* actual_start unset.  So end never finds a lesson without actual_start.
C25_StatusTimestamps ==
    \A i \in DOMAIN lessons :
        LET l == lessons[i] IN
        /\ l.status = "scheduled"
              => l.actual_start = NULL /\ l.actual_end = NULL /\ l.canceled_at = NULL
        /\ l.status = "in_progress"
              => l.actual_start # NULL /\ l.actual_end = NULL
        /\ l.status = "completed"
              => /\ l.actual_start # NULL /\ l.actual_end # NULL
                 /\ l.actual_end >= l.actual_start
                 /\ l.duration_minutes >= 0
        /\ l.status = "canceled"
              => l.canceled_at # NULL /\ l.actual_start = NULL

\* C25 witness: the table holds a lesson ended after the clock has advanced
\* since its start, and a lesson canceled before it was started.
C25_Witness ==
    \E i, j \in DOMAIN lessons :
        /\ lessons[i].status = "completed"
        /\ lessons[i].actual_end > lessons[i].actual_start
        /\ lessons[i].duration_minutes = 1
        /\ lessons[j].status = "canceled"
        /\ lessons[j].canceled_at # NULL

----------------------------------------------------------------------------
(* The trial allotment under interleaved schedule requests.  user_a has    *)
(* had one lesson of the trial and has one left; user_b is subscribed.     *)

InitTrial ==
    /\ students = <<[NewStudent("user_a", EmailOf("user_a")) EXCEPT
                        !.trial_lessons_remaining = DefaultTrialLessons - 1,
                        !.total_lessons_completed = 1,
                        !.total_minutes_studied = 30],
                    Subscribed(NewStudent("user_b", EmailOf("user_b")), "cus_1")>>
    /\ lessons = <<[NewLesson(1, 0, 30) EXCEPT
                       !.status = "completed", !.actual_start = 0,
                       !.actual_end = 30 * SecondsPerMinute]>>
    /\ now = 30 * SecondsPerMinute
    /\ ticks = 0
    /\ last = NoRequest
    /\ progress = <<>>
    /\ manager = NoManager
    /\ procs = <<>>

SpecTrial == InitTrial /\ [][NextSchedule]_vars

\* The lessons of a student that count against the trial allotment: those
\* scheduled and not refunded by a cancel with 24 hours of notice.
TrialLessonsUsed(sid) ==
    {i \in DOMAIN lessons :
        /\ lessons[i].student_id = sid
        /\ ~ ( /\ lessons[i].status = "canceled"
               /\ lessons[i].scheduled_start - lessons[i].canceled_at
                     >= CancelNoticeSeconds )}

\* C26 (as claimed): for a student on trial, also when the student's
\* schedule requests interleave, trial_lessons_remaining is never negative
\* and the lessons scheduled and not refunded are never more than the
\* initial allotment of 2: two interleaved schedule requests with 1 lesson
\* remaining do not both succeed.
C26_NoDoubleSpend ==
    \A sid \in DOMAIN students :
        students[sid].subscription_status = "trial" =>
           /\ students[sid].trial_lessons_remaining >= 0
           /\ Cardinality(TrialLessonsUsed(sid)) <= DefaultTrialLessons

----------------------------------------------------------------------------
(* POST /{lesson_id}/end under concurrency.  A request is an entry of      *)
(* procs and runs from await to await: the select of get_current_user, the *)
(* select of the lesson, the commit.  The request holds the Student object *)
(* its first select loaded and the Lesson object as it has updated it; the *)
(* commit writes the columns the handler assigned.                         *)

MaxEndRequests == 2     \* end requests started

EndProc(cid, lid) ==
    [kind |-> "end", cid |-> cid, lesson |-> lid, pc |-> "auth", row |-> 0,
     loaded |-> NoRequest, ended |-> NoRequest, code |-> 0]

\* The request arrives: get_current_user awaits its select.
end_begin(cid, lid) ==
    /\ procs' = Append(procs, EndProc(cid, lid))
    /\ UNCHANGED <<students, lessons, now, ticks, last, progress, manager>>

\* get_current_user: the select has returned the caller's row.
end_authenticated(p) ==
    LET cid == procs[p].cid
        me == CurrentUserId(cid)
        db == StudentsAfterAuth(cid)
    IN
    /\ procs[p].kind = "end"
    /\ procs[p].pc = "auth"
    /\ IF CurrentUserFails(cid)
       THEN /\ procs' = [procs EXCEPT ![p].pc = "done", ![p].code = 500]
            /\ UNCHANGED students
       ELSE /\ procs' = [procs EXCEPT ![p].pc = "select", ![p].row = me,
                                      ![p].loaded = db[me]]
            /\ students' = db
    /\ UNCHANGED <<lessons, now, ticks, last, progress, manager>>

\* The select of the lesson has returned: without an in_progress lesson of
\* the caller the request answers 404; with one the handler updates the
\* Lesson object and the statistics of the Student object, and awaits the
\* commit.
end_selected(p) ==
    LET lid == procs[p].lesson
        done == Ended(lessons[lid], now)
    IN
    /\ procs[p].kind = "end"
    /\ procs[p].pc = "select"
    /\ procs' = IF LessonRows(lid, procs[p].row, {"in_progress"}) = {}
                THEN [procs EXCEPT ![p].pc = "done", ![p].code = 404]
                ELSE [procs EXCEPT ![p].pc = "commit", ![p].ended = done,
                                   ![p].loaded = Credited(@, done, now)]
    /\ UNCHANGED <<students, lessons, now, ticks, last, progress, manager>>

\* The commit: the UPDATE of the lesson and the UPDATE of the student set
\* the assigned columns to the values of the objects.
end_committed(p) ==
    LET me == procs[p].row
        lid == procs[p].lesson
    IN
    /\ procs[p].kind = "end"
    /\ procs[p].pc = "commit"
    /\ lessons' = [lessons EXCEPT
                      ![lid].status = procs[p].ended.status,
                      ![lid].actual_end = procs[p].ended.actual_end,
                      ![lid].duration_minutes = procs[p].ended.duration_minutes]
    /\ students' = [students EXCEPT
                      ![me].total_lessons_completed =
                            procs[p].loaded.total_lessons_completed,
                      ![me].total_minutes_studied =
                            procs[p].loaded.total_minutes_studied,
                      ![me].last_active_date = procs[p].loaded.last_active_date]
    /\ procs' = [procs EXCEPT ![p].pc = "done", ![p].code = 200]
    /\ UNCHANGED <<now, ticks, last, progress, manager>>

\* user_a has started two lessons, user_b one.
InitEnd ==
    /\ students = <<NewStudent("user_a", EmailOf("user_a")),
                    Subscribed(NewStudent("user_b", EmailOf("user_b")), "cus_1")>>
    /\ lessons = <<Started(NewLesson(1, 0, 30), 0),
                   Started(NewLesson(1, 30 * SecondsPerMinute, 30), 0),
                   Started(NewLesson(2, 0, 30), 0)>>
    /\ now = 0
    /\ ticks = 0
    /\ last = NoRequest
    /\ progress = <<>>
    /\ manager = NoManager
    /\ procs = <<>>

NextEnd ==
    \/ /\ Len(procs) < MaxEndRequests
       /\ \E cid \in ClerkIds, lid \in DOMAIN lessons : end_begin(cid, lid)
    \/ \E p \in DOMAIN procs : end_authenticated(p)
    \/ \E p \in DOMAIN procs : end_selected(p)
    \/ \E p \in DOMAIN procs : end_committed(p)
    \/ Tick

SpecEnd == InitEnd /\ [][NextEnd]_vars

\* C27 (as claimed): in every reachable state a student's
\* total_lessons_completed is the number of the student's lessons with
\* status completed, also when end requests for two in_progress lessons of
\* the student, or two end requests for one lesson, interleave.
C27_CompletedCount ==
    \A sid \in DOMAIN students :
        students[sid].total_lessons_completed
           = Cardinality({i \in DOMAIN lessons :
                             /\ lessons[i].student_id = sid
                             /\ lessons[i].status = "completed"})

----------------------------------------------------------------------------
(* The entitlement check of schedule_lesson for the students the webhooks  *)
(* leave behind: user_a in each subscription_status the payment webhook    *)
(* writes, deactivated by user.deleted or not, with or without trial       *)
(* lessons left.                                                           *)

SubscriptionStatuses == {"trial", "active", "canceled", "past_due", "paused"}

InitEntitlement ==
    /\ \E status \in SubscriptionStatuses, active \in BOOLEAN,
          remaining \in {0, DefaultTrialLessons} :
          students = <<[NewStudent("user_a", EmailOf("user_a")) EXCEPT
                           !.subscription_status = status,
                           !.is_active = active,
                           !.trial_lessons_remaining = remaining],
                       Subscribed(NewStudent("user_b", EmailOf("user_b")), "cus_1")>>
    /\ lessons = <<>>
    /\ now = 0
    /\ ticks = 0
    /\ last = NoRequest
    /\ progress = <<>>
    /\ manager = NoManager
    /\ procs = <<>>

NextEntitlement ==
    \E cid \in ClerkIds, start \in Starts, dur \in Durations, ok \in BOOLEAN :
        schedule_lesson(cid, start, dur, ok)

SpecEntitlement == InitEntitlement /\ [][NextEntitlement]_vars

Exhausted(st) ==
    st.subscription_status = "trial" /\ st.trial_lessons_remaining <= 0

\* The requested slot overlaps no scheduled or in_progress lesson of the
\* caller.
SlotFree == Blocking = {}

\* C28 (as claimed): schedule rejects a request with 403 if and only if the
\* caller's subscription_status is trial and trial_lessons_remaining <= 0;
\* a caller in any other state (canceled, past_due, paused, is_active
\* false) is never refused for entitlement.
C28_Original ==
    [][last'.op = "schedule" => (last'.code = 403 <=> Exhausted(students[Caller]))]_vars

\* C28 (amended): a schedule request whose slot is free of the caller's
\* scheduled and in_progress lessons is rejected with 403 if and only if
\* the caller's subscription_status is trial and trial_lessons_remaining
\* <= 0 (a request for an occupied slot is answered by the conflict check,
\* which runs first, and never with 403); a caller in any other state
\* (canceled, past_due, paused, is_active false) is never answered 403 and
\* every request of such a caller for a free slot is accepted unless the
\* generation of the lesson plan fails.
C28_EntitlementCheck ==
    [][last'.op = "schedule" =>
          /\ last'.code = 403 <=> (Exhausted(students[Caller]) /\ SlotFree)
          /\ (~Exhausted(students[Caller]) /\ SlotFree) => last'.code \in {200, 500}
          /\ last'.code = 200 => Len(lessons') = Len(lessons) + 1
      ]_vars

\* C28 witness: user_a, canceled and deactivated and without trial lessons
\* left, has scheduled a second lesson.
C28_Witness ==
    /\ last.op = "schedule" /\ last.code = 200 /\ last.caller = "user_a"
    /\ students[1].subscription_status = "canceled"
    /\ ~students[1].is_active
    /\ students[1].trial_lessons_remaining = 0
    /\ Len(lessons) = 2
    /\ \A i \in DOMAIN lessons : lessons[i].student_id = 1

----------------------------------------------------------------------------
(* The voice task, checked under SpecLive *)

\* C29 (as claimed): an ai_voice frame is delivered only to the connection
\* in whose session the AI reply was produced; when that connection has
\* ended before the synthesis completes the frame is dropped, even when a
\* new connection for the same lesson id has been opened in the meantime.
C29_VoiceToOwnConnection ==
    \A q \in Connections :
        \A i \in DOMAIN procs[q].inbox :
            procs[q].inbox[i].type = "ai_voice" => procs[q].inbox[i].conn = q

----------------------------------------------------------------------------
(* The message list a text turn sends to the LLM.  The session of lesson   *)
(* L1 holds a history of earlier turns of connection 1; the call of the    *)
(* LLM is an entry of procs with the student message and the list sent.    *)

MaxHistory == 11        \* history entries when the turn begins
HistoryWindow == 10     \* history[-10:]

\* The histories a session can hold: entries of role user or ai (a turn
\* that failed has left its user entry alone), each with its own content.
Histories ==
    UNION {{[i \in 1..n |-> Frame(roles[i], 1, i)] :
               roles \in [1..n -> {"user", "ai"}]} : n \in 0..MaxHistory}

\* history[-10:]
Recent(history) ==
    IF Len(history) <= HistoryWindow THEN history
    ELSE SubSeq(history, Len(history) - HistoryWindow + 1, Len(history))

\* ClaudeTutor._format_conversation
format_conversation(history) ==
    [i \in DOMAIN Recent(history) |->
        [role |-> IF Recent(history)[i].type = "ai" THEN "assistant" ELSE "user",
         content |-> <<Recent(history)[i].conn, Recent(history)[i].turn>>]]

\* ClaudeTutor.conduct_lesson: the messages of the request to the LLM.
Messages(conversation_history, user_message) ==
    Append(format_conversation(conversation_history),
           [role |-> "user", content |-> user_message])

\* handle_student_message up to the call of the LLM: the student message is
\* appended to the history of the session, then conduct_lesson is given
\* that history and the message.
conduct_lesson(p, lid) ==
    LET session == manager.lesson_sessions[lid]
        turn == Len(session.history) + 1
        appended == Appended(manager, lid, session.owner, Frame("user", p, turn))
    IN
    /\ procs = <<>>
    /\ session # NoSession
    /\ manager' = appended
    /\ procs' = <<[kind |-> "llm", user_message |-> <<p, turn>>,
                   before |-> session.history,
                   messages |-> Messages(appended.lesson_sessions[lid].history,
                                         <<p, turn>>)]>>
    /\ UNCHANGED <<students, lessons, now, ticks, last, progress>>

InitConduct ==
    /\ students = <<>>
    /\ lessons = <<>>
    /\ now = 0
    /\ ticks = 0
    /\ last = NoRequest
    /\ procs = <<>>
    /\ progress = <<>>
    /\ \E history \in Histories :
          manager = [Connected(NoManager, "L1", 1) EXCEPT
                        !.lesson_sessions["L1"].history = history]

NextConduct == conduct_lesson(1, "L1")

SpecConduct == InitConduct /\ [][NextConduct]_vars

\* The last n entries of a sequence.
LastEntries(seq, n) ==
    IF Len(seq) <= n THEN seq ELSE SubSeq(seq, Len(seq) - n + 1, Len(seq))

\* C30 (as claimed): the message list sent to the LLM for a text turn is at
\* most the 10 most recent entries of the history of the earlier turns
\* (role ai mapped to assistant, every other role to user) followed by the
\* new student message, which occurs in the list exactly once, as its last
\* element.
C30_MessageList ==
    \A c \in DOMAIN procs :
        LET call == procs[c]
            earlier == LastEntries(call.before, HistoryWindow)
            new == [role |-> "user", content |-> call.user_message]
        IN
        /\ Len(call.messages) = Len(earlier) + 1
        /\ \A i \in DOMAIN earlier :
              /\ call.messages[i].content = <<earlier[i].conn, earlier[i].turn>>
              /\ call.messages[i].role
                    = IF earlier[i].type = "ai" THEN "assistant" ELSE "user"
        /\ call.messages[Len(call.messages)] = new
        /\ Cardinality({i \in DOMAIN call.messages : call.messages[i] = new}) = 1

====
